---- MODULE Spec2Model ----
(***************************************************************************)
(* Model of the QA testing agent's pipeline orchestrator: the Flask        *)
(* handlers of main.py acting on the process-wide session_state, and the   *)
(* services they delegate to (exploration, design, implementation with     *)
(* self-correction, verification, critique).                               *)
(*                                                                         *)
(* Requests are executed one at a time: each action is one whole handler.  *)
(* The collaborators (LLM, browser, test runner) are inputs of the         *)
(* handler, drawn from small sets of representative replies.               *)
(***************************************************************************)
EXTENDS Integers, Sequences, FiniteSets, TLC

(***************************************************************************)
(* Bounds of the model.                                                    *)
(***************************************************************************)
\* cap on metrics.iteration_count (number of metric updates per session)
MaxIter == 5
\* cap on the length of the test_cases collection
MaxCases == 1
\* cap on the number of _refactored_ suffixes of a test file name
MaxRefactored == 1
\* cap on metrics.iteration_count in the sessions whose files are followed
MaxStoreIter == 3
\* cap on the number of output lines read from one pytest subprocess
MaxLines == 3
\* cap on the clock of the test file names, in seconds
MaxClock == 2

\* implementation_service.py: MAX_CORRECTION_ATTEMPTS = 3
MAX_CORRECTION_ATTEMPTS == 3

VARIABLES
    session_state,   \* main.py: the global session_state dictionary
    last,            \* the response of the last request and what it called
    tc_current,      \* history: test_cases were written after the last explore
    files,           \* the artifact files on disk (output/, tests/, evidence/),
                     \* or Untracked where only the session is followed
    implement_run,   \* SpecLoop: the LLM replies and the result of the last
                     \* ImplementationService.implement call
    stream,          \* SpecStream: the verify-stream request in progress
    batch,           \* SpecBatch: the evidence directory and the result of
                     \* the last verify or critique call, in full
    disk,            \* SpecDisk: the clock and the content of the test files
    llm_text,        \* SpecParse, SpecExtract, SpecRefine: the input of a pure
                     \* function and what the function made of it
    in_flight        \* SpecRace: the requests being handled at the same time

vars == <<session_state, last, tc_current, files, implement_run, stream,
          batch, disk, llm_text, in_flight>>

\* what the specifications of the other operations follow
others == <<batch, disk, llm_text, in_flight>>

\* what the specifications of single operations follow, beside the session
runs == <<implement_run, stream, batch, disk, llm_text, in_flight>>

(***************************************************************************)
(* Values.                                                                 *)
(***************************************************************************)
\* Python None (also the value of .get() on a key the dictionary lacks)
None == [none |-> TRUE]

Phases == {"idle", "explored", "designed", "implemented", "verified"}

\* url inputs of /api/explore: the scheme decides is_valid_url
Hosts == {"a.example"}
NoUrl == [scheme |-> "", host |-> ""]
UrlInputs == {NoUrl} \cup [scheme : {"https", "ftp"}, host : Hosts]

\* test cases are represented by their id; id n stands for "TC_00n",
\* 0 for a test case the LLM returned without an id
TcIds == {1, 2}

RECURSIVE SeqsUpTo(_, _)
SeqsUpTo(S, n) ==
    IF n = 0 THEN {<<>>}
    ELSE LET shorter == SeqsUpTo(S, n - 1)
         IN  shorter \cup {Append(s, x) : s \in {t \in shorter : Len(t) = n - 1}, x \in S}

\* generated source code: representative candidates, "" the empty string
Codes == {"good", "noassert", "nogoto", "syntax", "nopw", "notest", "bare", "default"}
\* LLM texts asked for code: a candidate, a text that opens with a markdown
\* heading (no code before it), or the empty text
CodeTexts == Codes \cup {"heading", ""}

(***************************************************************************)
(* utils/helpers.py                                                        *)
(***************************************************************************)
is_valid_url(url) == url.scheme \in {"http", "https"}

create_initial_state ==
    [ phase             |-> "idle",
      page_structure    |-> None,
      test_cases        |-> <<>>,
      generated_code    |-> "",
      test_file_path    |-> None,
      last_verification |-> None,
      metrics           |-> [iteration_count |-> 0] ]

\* avg_response_time and tokens_used are recomputed from the inputs of
\* every update; iteration_count grows by one on every update, so it
\* records whether, and how often, the metrics were updated
update_metrics(current_metrics) ==
    [ iteration_count |-> current_metrics.iteration_count + 1 ]

\* the files on disk are followed under SpecStore only
Untracked == {[kind |-> "untracked"]}

\* the model only follows a session up to MaxIter metric updates
\* (MaxStoreIter where the files are followed too)
CanUpdate(s) ==
    s.metrics.iteration_count < (IF files = Untracked THEN MaxIter ELSE MaxStoreIter)

(***************************************************************************)
(* Responses.                                                              *)
(***************************************************************************)
\* llm_raised: "no", "first" (the request's first or only LLM call raised)
\* or "correction" (a later call, inside the self-correction loop, raised);
\* browser_raised: fetch_page_dom raised inside explore()
Response(op, status, llm, runner, browser, llm_raised, event) ==
    [ op |-> op, status |-> status, llm |-> llm, runner |-> runner,
      browser |-> browser, llm_raised |-> llm_raised, event |-> event,
      browser_raised |-> FALSE ]

Rejected(op) == Response(op, 400, 0, 0, 0, "no", "none")

(***************************************************************************)
(* Artifact files.  A file is represented by its path without the         *)
(* timestamp part: output/page_model_<domain>_*.json,                      *)
(* output/test_cases_<domain>_*.json, the evidence of the test runs, and   *)
(* the test files tests/test_<domain>_*[_refactored_*].py                  *)
(***************************************************************************)
PageModelFile(url) == [kind |-> "page_model", url |-> url]
TestCasesFile(url) == [kind |-> "test_cases", url |-> url]
EvidenceFiles == [kind |-> "evidence"]

\* the files on disk after a request that wrote the files `saved`
Store(on_disk, saved) == IF on_disk = Untracked THEN on_disk ELSE on_disk \cup saved

(***************************************************************************)
(* services/exploration_service.py                                         *)
(***************************************************************************)
\* replies of the LLM to the exploration prompt
ExploreReplies == {"raise", "object", "nonjson"}

\* parse_response: a JSON object is returned as parsed; anything else
\* (JSONDecodeError, or .keys() failing on a non-object) gives the default
ExplorationParse(reply, url) ==
    IF reply = "object"
    THEN [url |-> url, elements |-> "llm", raw_dom |-> "none"]
    ELSE [url |-> url, elements |-> "default", raw_dom |-> "none"]

\* explore(): the page_data it returns, with raw_dom attached (dom is "ok"
\* or, when fetch_page_dom raised, the empty "fallback")
exploration_explore(url, dom, reply) ==
    [ExplorationParse(reply, url) EXCEPT !.raw_dom = dom]

(***************************************************************************)
(* main.py: /api/explore                                                   *)
(***************************************************************************)
\* explore_url as it would be if explore() let the browser's exception out
explore_url_propagating(s, url, dom, reply) ==
    IF url = NoUrl \/ ~is_valid_url(url)
    THEN [state |-> s, saved |-> {}, resp |-> Rejected("explore")]
    ELSE IF dom = "fallback"
    THEN [state |-> s, saved |-> {},
          resp  |-> [Response("explore", 500, 0, 0, 1, "no", "none")
                        EXCEPT !.browser_raised = TRUE]]
    ELSE IF reply = "raise"
    THEN [state |-> s, saved |-> {},
          resp  |-> Response("explore", 500, 1, 0, 1, "first", "none")]
    ELSE [state |-> [s EXCEPT !.page_structure = exploration_explore(url, dom, reply),
                              !.phase = "explored",
                              !.metrics = update_metrics(s.metrics)],
          saved |-> {PageModelFile(url)},
          resp  |-> Response("explore", 200, 1, 0, 1, "no", "none")]

explore_url(s, url, dom, reply) ==
    IF url = NoUrl \/ ~is_valid_url(url)
    THEN [state |-> s, saved |-> {}, resp |-> Rejected("explore")]
    ELSE IF reply = "raise"
    THEN [state |-> s, saved |-> {},
          resp  |-> [Response("explore", 500, 1, 0, 1, "first", "none")
                        EXCEPT !.browser_raised = (dom = "fallback")]]
    ELSE [state |-> [s EXCEPT !.page_structure = exploration_explore(url, dom, reply),
                              !.phase = "explored",
                              !.metrics = update_metrics(s.metrics)],
          saved |-> {PageModelFile(url)},
          resp  |-> [Response("explore", 200, 1, 0, 1, "no", "none")
                        EXCEPT !.browser_raised = (dom = "fallback")]]

\* what the browser and the LLM do in one explore request
ExploreInputs ==
    { <<"ok", "object">>, <<"fallback", "nonjson">>,
      <<"ok", "raise">>, <<"fallback", "raise">> }

ExploreUrl ==
    \E url \in UrlInputs :
    \E in \in IF is_valid_url(url) THEN ExploreInputs ELSE {<<"ok", "raise">>} :
    \E dom \in {in[1]}, reply \in {in[2]} :
        \E r \in {explore_url(session_state, url, dom, reply)} :
        /\ r.resp.status = 200 => CanUpdate(session_state)
        /\ session_state' = r.state
        /\ last' = r.resp
        /\ files' = Store(files, r.saved)
        /\ UNCHANGED runs
        /\ tc_current' = IF r.resp.status = 200 THEN FALSE ELSE tc_current

(***************************************************************************)
(* services/design_service.py                                              *)
(***************************************************************************)
\* replies of the LLM to the design prompt: a JSON array of test cases
\* (possibly empty), a non-empty JSON object, a JSON scalar, or no JSON
DesignReplies ==
    {[kind |-> k, cases |-> <<>>] : k \in {"raise", "object", "scalar", "nonjson"}}
    \cup {[kind |-> "array", cases |-> c] : c \in SeqsUpTo(TcIds, MaxCases)}

\* get_default_test_cases: the single case "TC001"
get_default_test_cases == <<1>>

\* parse_response: json.loads result returned as is when len() applies to
\* it; JSONDecodeError or any other exception gives the default cases
DesignParse(reply) ==
    CASE reply.kind = "array"  -> [shape |-> "list", cases |-> reply.cases]
      [] reply.kind = "object" -> [shape |-> "dict", cases |-> <<>>]
      [] OTHER                 -> [shape |-> "list", cases |-> get_default_test_cases]

\* design() as it would be if it caught the LLM's exception and went on
\* with the default test cases
design_service_design_absorbing(page_structure, reply) ==
    IF page_structure = None
    THEN [ok |-> FALSE, llm |-> 0, llm_raised |-> "no", test_cases |-> <<>>]
    ELSE IF reply.kind = "raise"
    THEN [ok |-> TRUE, llm |-> 1, llm_raised |-> "first",
          test_cases |-> get_default_test_cases]
    ELSE LET parsed == DesignParse(reply) IN
         IF parsed.shape = "dict"
         THEN [ok |-> FALSE, llm |-> 1, llm_raised |-> "no", test_cases |-> <<>>]
         ELSE [ok |-> TRUE, llm |-> 1, llm_raised |-> "no", test_cases |-> parsed.cases]

\* design(): the LLM call, parse_response, save_test_cases.  save_test_cases
\* calls .get on every element, which raises on the keys of a JSON object.
\* Result: ok = FALSE when an exception leaves design()
design_service_design(page_structure, reply) ==
    IF page_structure = None
    THEN [ok |-> FALSE, llm |-> 0, llm_raised |-> "no", test_cases |-> <<>>]
    ELSE IF reply.kind = "raise"
    THEN [ok |-> FALSE, llm |-> 1, llm_raised |-> "first", test_cases |-> <<>>]
    ELSE LET parsed == DesignParse(reply) IN
         IF parsed.shape = "dict"
         THEN [ok |-> FALSE, llm |-> 1, llm_raised |-> "no", test_cases |-> <<>>]
         ELSE [ok |-> TRUE, llm |-> 1, llm_raised |-> "no", test_cases |-> parsed.cases]

\* replies of the LLM to the refinement prompt.  A JSON object carries
\* action, test_cases (ids, 0 for a case without id) and remove_ids
RefineObjects ==
    {[kind |-> "object", action |-> "add", test_cases |-> c, remove_ids |-> {}] :
        c \in SeqsUpTo({0} \cup TcIds, MaxCases)}
    \cup {[kind |-> "object", action |-> "modify", test_cases |-> c, remove_ids |-> {}] :
        c \in SeqsUpTo(TcIds, 1)}
    \cup {[kind |-> "object", action |-> "remove", test_cases |-> <<>>, remove_ids |-> r] :
        r \in SUBSET TcIds}

RefineReplies ==
    {[kind |-> k, action |-> "", test_cases |-> <<>>, remove_ids |-> {}] :
        k \in {"raise", "array", "nonjson"}}
    \cup RefineObjects

SeqRange(s) == {s[i] : i \in 1..Len(s)}

\* the "add" branch: a new case whose id is missing or already used gets
\* the id TC_{len(updated_cases)+1}; every new case is appended
RECURSIVE RefineAdd(_, _, _)
RefineAdd(updated_cases, existing_ids, new_cases) ==
    IF new_cases = <<>> THEN updated_cases
    ELSE LET tc == Head(new_cases)
             id == IF tc = 0 \/ tc \in existing_ids THEN Len(updated_cases) + 1 ELSE tc
         IN  RefineAdd(Append(updated_cases, id), existing_ids \cup {id}, Tail(new_cases))

\* the "remove" branch: keep the cases whose id is not in remove_ids
RefineRemove(updated_cases, remove_ids) ==
    SelectSeq(updated_cases, LAMBDA id : id \notin remove_ids)

\* the "modify" branch merges fields into the case with the same id: the
\* ids, and their order, stay as they are
RefineModify(updated_cases, new_cases) == updated_cases

\* a fallback that answers with the default test case, as design does
refine_unparseable_default(current_test_cases) ==
    [ok |-> TRUE, llm |-> 1, llm_raised |-> "no", test_cases |-> get_default_test_cases,
     saved |-> {}, message |-> "couldn't process"]

\* the return of refine_test_cases when json.loads fails on the text and on
\* the span from the first { to the last }: the current cases and the
\* message "I understood your request but couldn't process it properly"
refine_unparseable(current_test_cases) ==
    [ok |-> TRUE, llm |-> 1, llm_raised |-> "no", test_cases |-> current_test_cases,
     saved |-> {}, message |-> "couldn't process"]

\* refine_test_cases(): on unparseable text the current cases come back
\* unchanged; a JSON array has no .get and raises
design_service_refine(current_test_cases, page_structure, reply) ==
    IF page_structure = None
    THEN [ok |-> FALSE, llm |-> 0, llm_raised |-> "no", test_cases |-> <<>>,
          saved |-> {}, message |-> ""]
    ELSE IF reply.kind = "raise"
    THEN [ok |-> FALSE, llm |-> 1, llm_raised |-> "first", test_cases |-> <<>>,
          saved |-> {}, message |-> ""]
    ELSE IF reply.kind = "nonjson"
    THEN refine_unparseable(current_test_cases)
    ELSE IF reply.kind = "array"
    THEN [ok |-> FALSE, llm |-> 1, llm_raised |-> "no", test_cases |-> <<>>,
          saved |-> {}, message |-> ""]
    ELSE LET updated ==
                CASE reply.action = "add" /\ reply.test_cases # <<>> ->
                        RefineAdd(current_test_cases, SeqRange(current_test_cases),
                                  reply.test_cases)
                  [] reply.action = "modify" /\ reply.test_cases # <<>> ->
                        RefineModify(current_test_cases, reply.test_cases)
                  [] reply.action = "remove" /\ reply.remove_ids # {} ->
                        RefineRemove(current_test_cases, reply.remove_ids)
                  [] OTHER -> current_test_cases
         IN  [ok |-> TRUE, llm |-> 1, llm_raised |-> "no", test_cases |-> updated,
              message |-> IF updated = current_test_cases /\ reply.action # "modify"
                             /\ ~(reply.action = "remove" /\ reply.remove_ids # {})
                          THEN "no changes were made" ELSE "changed",
              \* saved again when the length changed or the action was modify
              saved |-> IF Len(updated) # Len(current_test_cases)
                           \/ reply.action = "modify"
                        THEN {TestCasesFile(page_structure.url)} ELSE {}]

(***************************************************************************)
(* main.py: /api/design                                                    *)
(***************************************************************************)
\* if not session_state.get('page_structure')
DesignRejected(s) == s.page_structure = None

design_tests(s, reply) ==
    IF DesignRejected(s)
    THEN [state |-> s, saved |-> {}, resp |-> Rejected("design")]
    ELSE LET result == design_service_design(s.page_structure, reply) IN
         IF ~result.ok
         THEN [state |-> s, saved |-> {},
               resp  |-> Response("design", 500, result.llm, 0, 0, result.llm_raised, "none")]
         ELSE [state |-> [s EXCEPT !.test_cases = result.test_cases,
                                   !.phase = "designed",
                                   !.metrics = update_metrics(s.metrics)],
               saved |-> {TestCasesFile(s.page_structure.url)},
               resp  |-> Response("design", 200, result.llm, 0, 0, result.llm_raised, "none")]

DesignTests ==
    \E reply \in DesignReplies :
        \E r \in {design_tests(session_state, reply)} :
        /\ r.resp.status = 200 => CanUpdate(session_state)
        /\ session_state' = r.state
        /\ last' = r.resp
        /\ files' = Store(files, r.saved)
        /\ UNCHANGED runs
        /\ tc_current' = IF r.resp.status = 200 THEN TRUE ELSE tc_current

(***************************************************************************)
(* main.py: /api/refine                                                    *)
(***************************************************************************)
\* if not session_state.get('page_structure')
RefineRejected(s) == s.page_structure = None

refine_tests(s, feedback, reply) ==
    IF feedback = "" \/ RefineRejected(s)
    THEN [state |-> s, saved |-> {}, resp |-> Rejected("refine")]
    ELSE LET result == design_service_refine(s.test_cases, s.page_structure, reply) IN
         IF ~result.ok
         THEN [state |-> s, saved |-> {},
               resp  |-> Response("refine", 500, result.llm, 0, 0, result.llm_raised, "none")]
         ELSE [state |-> [s EXCEPT !.test_cases = result.test_cases,
                                   !.phase = "designed",
                                   !.metrics = update_metrics(s.metrics)],
               saved |-> result.saved,
               resp  |-> Response("refine", 200, result.llm, 0, 0, result.llm_raised, "none")]

RefineTests ==
    \E feedback \in {"", "feedback"} :
    \E reply \in IF feedback = "" THEN {CHOOSE r \in RefineReplies : r.kind = "raise"}
                 ELSE RefineReplies :
        \E r \in {refine_tests(session_state, feedback, reply)} :
        /\ r.resp.status = 200 => CanUpdate(session_state)
        /\ r.resp.status = 200 => Len(r.state.test_cases) <= MaxCases
        /\ session_state' = r.state
        /\ last' = r.resp
        /\ files' = Store(files, r.saved)
        /\ UNCHANGED runs
        /\ tc_current' = IF r.resp.status = 200 THEN TRUE ELSE tc_current

(***************************************************************************)
(* services/implementation_service.py                                      *)
(***************************************************************************)
\* what the validators look for in a candidate
ParsesAsPython(code)   == code # "syntax"
MentionsPlaywright(code) == code \in Codes \ {"nopw", "bare"}
HasTestFunction(code)  == code \in Codes \ {"notest", "bare"}
HasGoto(code)          == code \in Codes \ {"nogoto"}
HasAssertion(code)     == code \in Codes \ {"noassert", "default"}
\* every candidate carries an import line; a heading-only or empty text does not
ContainsImport(text)   == text \in Codes

\* get_default_code: the template test (Playwright import, test_example,
\* page.goto, no assertion)
get_default_code == "default"

\* parse_response: fences and trailing prose are stripped, lines from the
\* first markdown heading on are dropped; without 'import' the default
\* template replaces the text
implementation_parse_response(text) ==
    LET code == IF text = "heading" THEN "" ELSE text
    IN  IF ~ContainsImport(code) THEN get_default_code ELSE code

\* validate_syntax: (is_valid, errors)
validate_syntax(code) ==
    IF ParsesAsPython(code)
    THEN [ok |-> TRUE, errors |-> <<>>]
    ELSE [ok |-> FALSE, errors |-> <<"syntax error">>]

\* validate_structure: (is_valid, issues); only the first two are critical
validate_structure(code) ==
    LET issues ==
            (IF MentionsPlaywright(code) THEN <<>> ELSE <<"Missing Playwright import">>)
         \o (IF HasTestFunction(code) THEN <<>> ELSE <<"No test functions found">>)
         \o (IF HasGoto(code) THEN <<>> ELSE <<"No page.goto() call">>)
         \o (IF HasAssertion(code) THEN <<>> ELSE <<"No assertions found">>)
    IN  [ok     |-> MentionsPlaywright(code) /\ HasTestFunction(code),
         issues |-> issues]

\* a filter that keeps every structure issue
IsCriticalAlways(issue) == TRUE

\* 'Missing' in i or 'No test' in i
IsCritical(issue) == issue \in {"Missing Playwright import", "No test functions found"}

\* all_issues = syntax_errors + [i for i in structure_issues if critical]
CriticalIssues(code) ==
    validate_syntax(code).errors \o SelectSeq(validate_structure(code).issues, IsCritical)

\* a correction round without the except clause: the exception leaves the loop
CorrectionRaisedPropagates(acc) ==
    [acc EXCEPT !.llm = acc.llm + 1, !.llm_raised = "correction", !.exception = TRUE]

\* a correction round that enters its history only once the LLM answered
CorrectionRaisedUnlogged(acc) ==
    [acc EXCEPT !.llm = acc.llm + 1, !.llm_raised = "correction", !.exception = FALSE,
                !.history = SubSeq(acc.history, 1, Len(acc.history) - 1)]

\* what a correction round does when llm_call raises: the except clause
\* logs and breaks, so the exception does not leave the loop and the loop
\* result is the current candidate
CorrectionRaised(acc) ==
    [acc EXCEPT !.llm = acc.llm + 1, !.llm_raised = "correction", !.exception = FALSE]

\* the LLM's replies to correction prompts are given one round further than
\* the loop is allowed to go
ScriptLen == MAX_CORRECTION_ATTEMPTS + 1

\* the loop as it would be if it went on while replies are left
RECURSIVE SelfCorrectionLoopUnbounded(_, _, _)
SelfCorrectionLoopUnbounded(acc, attempt, corr) ==
    IF attempt >= ScriptLen THEN acc
    ELSE LET all_issues == CriticalIssues(acc.code) IN
         IF validate_syntax(acc.code).ok /\ all_issues = <<>>
         THEN acc
         ELSE LET logged == [acc EXCEPT !.history =
                                Append(acc.history, [attempt |-> attempt + 1,
                                                     issues  |-> all_issues])]
                  reply  == corr[attempt + 1]
              IN  IF reply = "raise"
                  THEN CorrectionRaised(logged)
                  ELSE LET corrected_code == implementation_parse_response(reply)
                           called == [logged EXCEPT !.llm = logged.llm + 1]
                       IN  IF corrected_code # "" /\ corrected_code # acc.code
                           THEN SelfCorrectionLoopUnbounded(
                                    [called EXCEPT !.code = corrected_code],
                                    attempt + 1, corr)
                           ELSE called

\* the loop as it would be without the break on unchanged code
RECURSIVE SelfCorrectionLoopNoBreak(_, _, _)
SelfCorrectionLoopNoBreak(acc, attempt, corr) ==
    IF attempt >= MAX_CORRECTION_ATTEMPTS THEN acc
    ELSE LET all_issues == CriticalIssues(acc.code) IN
         IF validate_syntax(acc.code).ok /\ all_issues = <<>>
         THEN acc
         ELSE LET logged == [acc EXCEPT !.history =
                                Append(acc.history, [attempt |-> attempt + 1,
                                                     issues  |-> all_issues])]
                  reply  == corr[attempt + 1]
              IN  IF reply = "raise"
                  THEN CorrectionRaised(logged)
                  ELSE LET corrected_code == implementation_parse_response(reply)
                           called == [logged EXCEPT !.llm = logged.llm + 1]
                       IN  SelfCorrectionLoopNoBreak(
                               [called EXCEPT !.code = corrected_code],
                               attempt + 1, corr)

\* the loop as it would be if it went back to the earlier candidate when
\* the corrected one has more critical issues
RECURSIVE SelfCorrectionLoopRestoring(_, _, _)
SelfCorrectionLoopRestoring(acc, attempt, corr) ==
    IF attempt >= MAX_CORRECTION_ATTEMPTS THEN acc
    ELSE LET all_issues == CriticalIssues(acc.code) IN
         IF validate_syntax(acc.code).ok /\ all_issues = <<>>
         THEN acc
         ELSE LET logged == [acc EXCEPT !.history =
                                Append(acc.history, [attempt |-> attempt + 1,
                                                     issues  |-> all_issues])]
                  reply  == corr[attempt + 1]
              IN  IF reply = "raise"
                  THEN CorrectionRaised(logged)
                  ELSE LET corrected_code == implementation_parse_response(reply)
                           called == [logged EXCEPT !.llm = logged.llm + 1]
                       IN  IF corrected_code # "" /\ corrected_code # acc.code
                           THEN LET rest == SelfCorrectionLoopRestoring(
                                               [called EXCEPT !.code = corrected_code],
                                               attempt + 1, corr)
                                IN  IF Len(CriticalIssues(rest.code)) > Len(all_issues)
                                    THEN [rest EXCEPT !.code = acc.code]
                                    ELSE rest
                           ELSE called

\* the self-correction loop of implement_with_self_correction, from
\* attempt (0-based, as range() counts) on; corr[i] is the LLM's reply to
\* the i-th correction prompt
RECURSIVE SelfCorrectionLoop(_, _, _)
SelfCorrectionLoop(acc, attempt, corr) ==
    IF attempt >= MAX_CORRECTION_ATTEMPTS THEN acc
    ELSE LET all_issues == CriticalIssues(acc.code) IN
         IF validate_syntax(acc.code).ok /\ all_issues = <<>>
         THEN acc
         ELSE LET logged == [acc EXCEPT !.history =
                                Append(acc.history, [attempt |-> attempt + 1,
                                                     issues  |-> all_issues])]
                  reply  == corr[attempt + 1]
              IN  IF reply = "raise"
                  THEN CorrectionRaised(logged)
                  ELSE LET corrected_code == implementation_parse_response(reply)
                           called == [logged EXCEPT !.llm = logged.llm + 1]
                       IN  IF corrected_code # "" /\ corrected_code # acc.code
                           THEN SelfCorrectionLoop([called EXCEPT !.code = corrected_code],
                                                   attempt + 1, corr)
                           ELSE called

\* a test file path: tests/test_<url>_<timestamp>.py, with `refactored`
\* counting the _refactored_<timestamp> suffixes critique has added
TestFile(url) == [url |-> url, refactored |-> 0]

\* implement() as it would be if it raised on a candidate that is still
\* invalid after the loop
implementation_implement_strict(test_cases, page_structure, initial, corr) ==
    IF page_structure = None
    THEN [ok |-> FALSE, llm |-> 0, llm_raised |-> "no"]
    ELSE IF initial = "raise"
    THEN [ok |-> FALSE, llm |-> 1, llm_raised |-> "first"]
    ELSE LET start == [code |-> implementation_parse_response(initial),
                       history |-> <<>>, llm |-> 1, llm_raised |-> "no", exception |-> FALSE]
             final == SelfCorrectionLoop(start, 0, corr)
         IN  IF final.exception \/ CriticalIssues(final.code) # <<>>
             THEN [ok |-> FALSE, llm |-> final.llm, llm_raised |-> final.llm_raised]
             ELSE
             [ok |-> TRUE, llm |-> final.llm, llm_raised |-> final.llm_raised,
              code |-> final.code,
              file_path |-> TestFile(page_structure.url),
              self_correction |->
                  [attempts |-> Len(final.history),
                   history  |-> final.history,
                   final_syntax_valid    |-> validate_syntax(final.code).ok,
                   final_structure_valid |-> validate_structure(final.code).ok]]

\* implement() = implement_with_self_correction(): initial generation, the
\* loop, final validation, save_test_file
implementation_implement(test_cases, page_structure, initial, corr) ==
    IF page_structure = None
    THEN [ok |-> FALSE, llm |-> 0, llm_raised |-> "no"]
    ELSE IF initial = "raise"
    THEN [ok |-> FALSE, llm |-> 1, llm_raised |-> "first"]
    ELSE LET start == [code |-> implementation_parse_response(initial),
                       history |-> <<>>, llm |-> 1, llm_raised |-> "no", exception |-> FALSE]
             final == SelfCorrectionLoop(start, 0, corr)
         IN  IF final.exception
             THEN [ok |-> FALSE, llm |-> final.llm, llm_raised |-> final.llm_raised]
             ELSE
             [ok |-> TRUE, llm |-> final.llm, llm_raised |-> final.llm_raised,
              code |-> final.code,
              file_path |-> TestFile(page_structure.url),
              self_correction |->
                  [attempts |-> Len(final.history),
                   history  |-> final.history,
                   final_syntax_valid    |-> validate_syntax(final.code).ok,
                   final_structure_valid |-> validate_structure(final.code).ok]]

(***************************************************************************)
(* main.py: /api/implement                                                 *)
(***************************************************************************)
\* implement without its precondition check
ImplementRejectedNever(s) == FALSE

\* if not session_state.get('test_cases')
ImplementRejected(s) == s.test_cases = <<>>

implement_tests(s, initial, corr) ==
    IF ImplementRejected(s)
    THEN [state |-> s, saved |-> {}, resp |-> Rejected("implement")]
    ELSE LET result == implementation_implement(s.test_cases, s.page_structure,
                                                initial, corr) IN
         IF ~result.ok
         THEN [state |-> s, saved |-> {},
               resp  |-> Response("implement", 500, result.llm, 0, 0,
                                  result.llm_raised, "none")]
         ELSE [state |-> [s EXCEPT !.generated_code = result.code,
                                   !.test_file_path = result.file_path,
                                   !.phase = "implemented",
                                   !.metrics = update_metrics(s.metrics)],
               saved |-> {result.file_path},
               resp  |-> Response("implement", 200, result.llm, 0, 0,
                                  result.llm_raised, "none")]

\* replies of the LLM to the generation prompt and to correction prompts
InitialReplies == {"raise", "good", "syntax", "heading"}
CorrectionReplies == {"raise", "good", "syntax", "nopw"}

\* the replies to the correction prompts of one request.  The loop ends
\* with the first reply that raises or is valid, so the replies after it
\* are never read: they are fixed to "good"
CorrectionScripts ==
    { corr \in [1..MAX_CORRECTION_ATTEMPTS -> CorrectionReplies] :
        \A i \in 1..MAX_CORRECTION_ATTEMPTS, j \in 1..MAX_CORRECTION_ATTEMPTS :
            (i < j /\ corr[i] \in {"raise", "good"}) => corr[j] = "good" }

\* the scripts a session is followed through: fixed at once, failing at
\* once, repeating the candidate, failing in the second round, and never
\* fixed
SessionScripts ==
    { corr \in CorrectionScripts :
        \/ corr[1] \in {"good", "raise", "syntax"} /\ corr[2] = "good" /\ corr[3] = "good"
        \/ corr = <<"nopw", "raise", "good">>
        \/ corr = <<"nopw", "syntax", "nopw">> }

ImplementTests ==
    \E initial \in InitialReplies :
    \E corr \in IF initial = "syntax" THEN SessionScripts
                ELSE {[i \in 1..MAX_CORRECTION_ATTEMPTS |-> "good"]} :
        \E r \in {implement_tests(session_state, initial, corr)} :
        /\ r.resp.status = 200 => CanUpdate(session_state)
        /\ session_state' = r.state
        /\ last' = r.resp
        /\ files' = Store(files, r.saved)
        /\ UNCHANGED runs
        /\ UNCHANGED tc_current

(***************************************************************************)
(* SpecLoop: implement requests on a designed session, with every reply    *)
(* of the LLM to the generation prompt and every script of replies to the  *)
(* correction prompts.  implement_run keeps the replies and the result.    *)
(***************************************************************************)
LoopInitialReplies ==
    {"raise", "good", "noassert", "nogoto", "heading", "syntax", "nopw", "notest"}

\* replies that leave the candidate invalid, and replies that end the loop
LoopInvalidReplies == {"syntax", "nopw", "notest"}
LoopFinalReplies == {"raise", "good", "noassert"}

\* scripts whose first correction has neither a Playwright import nor a
\* test function: two critical issues where the candidates above have one
RegressingScripts ==
    { [i \in 1..ScriptLen |-> IF i = 1 THEN "bare" ELSE IF i = 2 THEN second ELSE "good"] :
        second \in {"bare", "syntax", "raise"} }

\* the loop stops reading at the first reply that raises or is valid: the
\* replies after it are fixed to "good"
LoopScripts ==
    { corr \in [1..ScriptLen -> LoopInvalidReplies \cup LoopFinalReplies] :
        \A i \in 1..ScriptLen, j \in 1..ScriptLen :
            (i < j /\ corr[i] \in LoopFinalReplies) => corr[j] = "good" }
    \cup RegressingScripts

\* a session after explore and design
ExploredAndDesigned(s) ==
    design_tests(
        explore_url(s, [scheme |-> "https", host |-> "a.example"], "ok", "object").state,
        [kind |-> "array", cases |-> <<1>>]).state

\* the session the implement requests start from: explored and designed,
\* then explored and designed again
DesignedState == ExploredAndDesigned(ExploredAndDesigned(create_initial_state))

ImplementRun ==
    \E initial \in LoopInitialReplies :
    \E corr \in IF implementation_parse_response(initial) \in LoopInvalidReplies
                THEN LoopScripts ELSE {[i \in 1..ScriptLen |-> "good"]} :
        \E r \in {implement_tests(session_state, initial, corr)} :
        /\ r.resp.status = 200 => CanUpdate(session_state)
        /\ session_state' = r.state
        /\ last' = r.resp
        /\ implement_run' =
               [initial |-> initial, corr |-> corr,
                result  |-> implementation_implement(session_state.test_cases,
                                                     session_state.page_structure,
                                                     initial, corr)]
        /\ UNCHANGED <<tc_current, files, stream, others>>

InitLoop ==
    /\ session_state = DesignedState
    /\ last = Response("design", 200, 1, 0, 0, "no", "none")
    /\ tc_current = TRUE
    /\ files = Untracked
    /\ implement_run = None
    /\ stream = None
    /\ batch = None
    /\ disk = None
    /\ in_flight = None
    /\ llm_text = None

NextLoop == ImplementRun

SpecLoop == InitLoop /\ [][NextLoop]_vars

(***************************************************************************)
(* services/verification_service.py                                        *)
(***************************************************************************)
\* what one run of the test runner reports: the exit status and the parsed
\* per-test lines (TRUE = PASSED).  The last outcome is a run that timed
\* out or crashed: the except clauses return success False and no results
RunOutcomes ==
    { [success |-> TRUE,  test_results |-> <<TRUE>>],
      [success |-> FALSE, test_results |-> <<TRUE, FALSE>>],
      [success |-> FALSE, test_results |-> <<>>] }

\* the outcomes the session is followed through
SessionRunOutcomes == {o \in RunOutcomes : o.test_results # <<>>}

\* run_pytest_with_video: runner failures are returned, never raised
run_pytest_with_video(test_file, outcome) == outcome

PassedCount(test_results) ==
    Cardinality({i \in 1..Len(test_results) : test_results[i]})

\* verify(): without a test file path nothing is run and an error report
\* comes back without 'test_file' and 'execution_result'
verification_verify(code, test_file_path, outcome) ==
    IF test_file_path = None
    THEN [runner |-> 0, stored |-> [report |-> "error"], test_file |-> None]
    ELSE LET execution_result == run_pytest_with_video(test_file_path, outcome)
         IN  [runner |-> 1,
              stored |-> [execution_result |-> execution_result,
                          test_file        |-> test_file_path],
              test_file |-> test_file_path]

\* run_pytest_streaming, seen from its caller: the terminal event and, for
\* complete, its data.  Popen or the read loop raising gives the error
\* event.  Without the evidence report the counts come from tests_seen,
\* whose entries are test names: none of them contains 'PASSED'
StreamOutcomes ==
    {[event |-> "error", run |-> [success |-> FALSE, test_results |-> <<>>],
      evidence |-> FALSE]}
    \cup {so \in [event : {"complete"}, run : SessionRunOutcomes, evidence : BOOLEAN] :
            so.run.success => so.evidence}

StreamCompleteData(so) ==
    LET n == Len(so.run.test_results) IN
    IF so.evidence /\ n > 0
    THEN [success |-> so.run.success, passed |-> PassedCount(so.run.test_results),
          failed |-> n - PassedCount(so.run.test_results), total |-> n]
    ELSE [success |-> so.run.success, passed |-> 0, failed |-> n, total |-> n]

\* refactor_tests: fences stripped, lines from the first markdown heading
\* on dropped; no default replaces an empty result
refactor_clean(text) == IF text = "heading" THEN "" ELSE text

\* save_refactored_code: <stem>_refactored_<timestamp>.py next to the original
save_refactored_code(original_path) ==
    [original_path EXCEPT !.refactored = original_path.refactored + 1]

\* test_results.get('test_file', str(TESTS_DIR / 'test_refactored.py'))
DefaultRefactoredPath == [url |-> NoUrl, refactored |-> 0]

\* handle_critique(): one refactoring LLM call, save, one re-run
handle_critique(code, test_results, reply, outcome) ==
    IF reply = "raise"
    THEN [ok |-> FALSE, llm |-> 1, runner |-> 0, llm_raised |-> "first"]
    ELSE LET original_path == IF "test_file" \in DOMAIN test_results
                              THEN test_results.test_file
                              ELSE DefaultRefactoredPath
             new_path == save_refactored_code(original_path)
             new_execution == run_pytest_with_video(new_path, outcome)
         IN  [ok |-> TRUE, llm |-> 1, runner |-> 1, llm_raised |-> "no",
              refactored_code  |-> refactor_clean(reply),
              new_file_path    |-> new_path,
              execution_result |-> new_execution,
              improvement |->
                  [original_passed |->
                       IF "execution_result" \in DOMAIN test_results
                          /\ "test_results" \in DOMAIN test_results.execution_result
                       THEN PassedCount(test_results.execution_result.test_results)
                       ELSE 0,
                   new_passed |-> PassedCount(new_execution.test_results)]]

(***************************************************************************)
(* main.py: /api/verify                                                    *)
(***************************************************************************)
\* if not session_state.get('generated_code')
VerifyRejected(s) == s.generated_code = ""

verify_tests(s, outcome) ==
    IF VerifyRejected(s)
    THEN [state |-> s, saved |-> {}, resp |-> Rejected("verify")]
    ELSE LET result == verification_verify(s.generated_code, s.test_file_path, outcome)
         IN  [state |-> [s EXCEPT !.phase = "verified",
                                  !.last_verification = result.stored,
                                  !.test_file_path = result.test_file,
                                  !.metrics = update_metrics(s.metrics)],
              saved |-> IF result.runner = 1 THEN {EvidenceFiles} ELSE {},
              resp  |-> Response("verify", 200, 0, result.runner, 0, "no", "none")]

VerifyTests ==
    \E outcome \in SessionRunOutcomes :
        \E r \in {verify_tests(session_state, outcome)} :
        /\ r.resp.status = 200 => CanUpdate(session_state)
        /\ session_state' = r.state
        /\ last' = r.resp
        /\ files' = Store(files, r.saved)
        /\ UNCHANGED runs
        /\ UNCHANGED tc_current

(***************************************************************************)
(* main.py: /api/verify-stream                                             *)
(***************************************************************************)
\* if not session_state.get('generated_code')
VerifyStreamRejected(s) == s.generated_code = ""

\* the generator: no test file gives an error event; the session is
\* written when the complete event has been forwarded; metrics are not
verify_tests_streaming(s, so) ==
    IF VerifyStreamRejected(s)
    THEN [state |-> s, saved |-> {}, resp |-> Rejected("verify-stream")]
    ELSE IF s.test_file_path = None
    THEN [state |-> s, saved |-> {},
          resp  |-> Response("verify-stream", 200, 0, 0, 0, "no", "error")]
    ELSE IF so.event = "error"
    THEN [state |-> s, saved |-> {},
          resp  |-> Response("verify-stream", 200, 0, 1, 0, "no", "error")]
    ELSE [state |-> [s EXCEPT !.phase = "verified",
                              !.last_verification =
                                  [execution_result |-> StreamCompleteData(so),
                                   test_file        |-> s.test_file_path]],
          saved |-> {EvidenceFiles},
          resp  |-> Response("verify-stream", 200, 0, 1, 0, "no", "complete")]

VerifyTestsStreaming ==
    \E so \in StreamOutcomes :
        \E r \in {verify_tests_streaming(session_state, so)} :
        /\ session_state' = r.state
        /\ last' = r.resp
        /\ files' = Store(files, r.saved)
        /\ UNCHANGED runs
        /\ UNCHANGED tc_current

(***************************************************************************)
(* main.py: /api/critique                                                  *)
(***************************************************************************)
\* if not session_state.get('last_verification')
CritiqueRejected(s) == s.last_verification = None

\* critique_tests as it would be if it set the phase as verify does
critique_tests_verifying(s, critique, reply, outcome) ==
    IF critique = "" \/ CritiqueRejected(s)
    THEN [state |-> s, saved |-> {}, resp |-> Rejected("critique")]
    ELSE LET result == handle_critique(s.generated_code, s.last_verification,
                                       reply, outcome) IN
         IF ~result.ok
         THEN [state |-> s, saved |-> {},
               resp  |-> Response("critique", 500, result.llm, result.runner, 0,
                                  result.llm_raised, "none")]
         ELSE [state |-> [s EXCEPT !.generated_code = result.refactored_code,
                                   !.test_file_path = result.new_file_path,
                                   !.last_verification =
                                       [execution_result |-> result.execution_result,
                                        test_file        |-> result.new_file_path],
                                   !.phase = "verified",
                                   !.metrics = update_metrics(s.metrics)],
               saved |-> {result.new_file_path, EvidenceFiles},
               resp  |-> Response("critique", 200, result.llm, result.runner, 0,
                                  result.llm_raised, "none")]

critique_tests(s, critique, reply, outcome) ==
    IF critique = "" \/ CritiqueRejected(s)
    THEN [state |-> s, saved |-> {}, resp |-> Rejected("critique")]
    ELSE LET result == handle_critique(s.generated_code, s.last_verification,
                                       reply, outcome) IN
         IF ~result.ok
         THEN [state |-> s, saved |-> {},
               resp  |-> Response("critique", 500, result.llm, result.runner, 0,
                                  result.llm_raised, "none")]
         ELSE [state |-> [s EXCEPT !.generated_code = result.refactored_code,
                                   !.test_file_path = result.new_file_path,
                                   !.last_verification =
                                       [execution_result |-> result.execution_result,
                                        test_file        |-> result.new_file_path],
                                   !.metrics = update_metrics(s.metrics)],
               saved |-> {result.new_file_path, EvidenceFiles},
               resp  |-> Response("critique", 200, result.llm, result.runner, 0,
                                  result.llm_raised, "none")]

\* replies of the LLM to the refactoring prompt
CritiqueReplies == {"raise", "heading", "good"}

CritiqueTests ==
    \E critique \in {"", "critique"} :
    \E reply \in IF critique = "" THEN {"raise"} ELSE CritiqueReplies :
    \E outcome \in IF reply = "raise" THEN {CHOOSE o \in RunOutcomes : o.success}
                   ELSE SessionRunOutcomes :
        \E r \in {critique_tests(session_state, critique, reply, outcome)} :
        /\ r.resp.status = 200 => CanUpdate(session_state)
        /\ r.resp.status = 200 => r.state.test_file_path.refactored <= MaxRefactored
        /\ session_state' = r.state
        /\ last' = r.resp
        /\ files' = Store(files, r.saved)
        /\ UNCHANGED runs
        /\ UNCHANGED tc_current

(***************************************************************************)
(* main.py: /api/reset                                                     *)
(***************************************************************************)
\* a reset that keeps the test cases
reset_session_keeping_cases(s) ==
    [create_initial_state EXCEPT !.test_cases = s.test_cases]

\* rebinds the global to a fresh initial state; no file operation
reset_session(s) == create_initial_state

\* a reset that also empties the output, tests and evidence directories
ResetSessionCleaning ==
    /\ session_state' = create_initial_state
    /\ last' = Response("reset", 200, 0, 0, 0, "no", "none")
    /\ tc_current' = FALSE
    /\ files' = IF files = Untracked THEN files ELSE {}
    /\ UNCHANGED runs

ResetSession ==
    /\ session_state' = reset_session(session_state)
    /\ last' = Response("reset", 200, 0, 0, 0, "no", "none")
    /\ tc_current' = FALSE
    /\ UNCHANGED <<files, runs>>

Init ==
    /\ session_state = create_initial_state
    /\ last = Response("init", 200, 0, 0, 0, "no", "none")
    /\ tc_current = FALSE
    /\ files = Untracked
    /\ implement_run = None
    /\ stream = None
    /\ batch = None
    /\ disk = None
    /\ in_flight = None
    /\ llm_text = None

\* a fresh process in an empty working directory, files followed
InitStore ==
    /\ session_state = create_initial_state
    /\ last = Response("init", 200, 0, 0, 0, "no", "none")
    /\ tc_current = FALSE
    /\ files = {}
    /\ implement_run = None
    /\ stream = None
    /\ batch = None
    /\ disk = None
    /\ in_flight = None
    /\ llm_text = None

Next ==
    \/ ExploreUrl
    \/ DesignTests
    \/ RefineTests
    \/ ImplementTests
    \/ VerifyTests
    \/ VerifyTestsStreaming
    \/ CritiqueTests
    \/ ResetSession

Spec == Init /\ [][Next]_vars

SpecStore == InitStore /\ [][Next]_vars

(***************************************************************************)
(* main.py: /api/verify-stream, step by step.                              *)
(* verification_service.py: run_pytest_streaming, one step per yield,      *)
(* per line read and per call that can raise.                              *)
(***************************************************************************)
\* the test ids and the result words test_pattern looks for; an id is
\* test_\w+\.py::test_\w+ and may itself hold the word PASSED
TestNames == {"test_a", "test_PASSED"}
Statuses == {"PASSED", "FAILED", "SKIPPED", "ERROR"}

\* a line test_pattern does not match
NoiseLine == [name |-> "none", status |-> "none"]

\* the lines of pytest -v that matter: "<file>::<name> <STATUS>" or other
OutputLines == {NoiseLine} \cup [name : TestNames, status : Statuses]

\* match = test_pattern.search(line)
test_pattern_search(line) == line.name \in TestNames

\* the result words printed for one test, in order
StatusesOf(lines, name) ==
    LET mentions == SelectSeq(lines, LAMBDA l : l.name = name)
    IN  [i \in 1..Len(mentions) |-> mentions[i].status]

\* what pytest -v prints for one test: one result line, and a second
\* ERROR line when the teardown fails after the call
PytestPrints(lines) ==
    \A name \in TestNames :
        \/ Len(StatusesOf(lines, name)) <= 1
        \/ StatusesOf(lines, name) \in {<<"PASSED", "ERROR">>, <<"FAILED", "ERROR">>}

NoCounts == [passed |-> 0, failed |-> 0, total |-> 0]

\* one event of the stream, with the state of the subprocess when it was
\* yielded
StreamEvent(st, event, name, passed, counts) ==
    [event |-> event, name |-> name, passed |-> passed, counts |-> counts,
     spawned |-> st.spawned, exited |-> st.exited]

\* the generator before the request
StreamIdle ==
    [pc |-> "idle", test_file |-> None, spawned |-> FALSE, exited |-> FALSE,
     return_code_zero |-> FALSE, stdout_lines |-> <<>>, tests_seen |-> {},
     events |-> <<>>, resumed |-> FALSE]

\* an exception ends the generator with one error event: the except of
\* run_pytest_streaming (yield error; return) or the except of generate()
stream_error(st) ==
    [st EXCEPT !.events = Append(@, StreamEvent(st, "error", "none", FALSE, NoCounts)),
               !.pc = "done"]

\* a read loop that yields on every matching line
stream_line_every_match(st, line) ==
    LET read == [st EXCEPT !.stdout_lines = Append(@, line)] IN
    IF test_pattern_search(line)
    THEN [read EXCEPT !.tests_seen = @ \cup {line.name},
                      !.events = Append(@, StreamEvent(st, "test_result", line.name,
                                                       line.status = "PASSED", NoCounts))]
    ELSE read

\* the body of the read loop for one line
stream_line(st, line) ==
    LET read == [st EXCEPT !.stdout_lines = Append(@, line)] IN
    IF test_pattern_search(line) /\ line.name \notin st.tests_seen
    THEN [read EXCEPT !.tests_seen = @ \cup {line.name},
                      !.events = Append(@, StreamEvent(st, "test_result", line.name,
                                                       line.status = "PASSED", NoCounts))]
    ELSE read

\* conftest.py, pytest_runtest_makereport: a result is recorded in the call
\* phase only; a test skipped or failing in its setup prints SKIPPED or
\* ERROR and records nothing
SESSION_TEST_RESULTS(lines) ==
    {name \in TestNames :
        \E i \in 1..Len(lines) :
            lines[i].name = name /\ lines[i].status \in {"PASSED", "FAILED"}}

\* conftest.py, pytest_sessionfinish: the counts of the evidence report
evidence_report_tests(lines) ==
    LET details == SESSION_TEST_RESULTS(lines)
        passed  == {name \in details :
                       \E i \in 1..Len(lines) :
                           lines[i].name = name /\ lines[i].status = "PASSED"}
    IN  [details |-> details,
         total   |-> Cardinality(details),
         passed  |-> Cardinality(passed),
         failed  |-> Cardinality(details) - Cardinality(passed)]

\* what get_latest_evidence_report returns: {} without a readable report
ReportKinds == {"none", "written"}

\* 'PASSED' in str(t) for the entries of tests_seen, which are test ids
NameContainsPASSED(name) == name = "test_PASSED"

\* the final stats of the complete event
stream_counts(st, report) ==
    LET tests == evidence_report_tests(st.stdout_lines) IN
    IF report = "written" /\ tests.details # {}
    THEN [passed |-> tests.passed, failed |-> tests.failed, total |-> tests.total]
    ELSE LET passed == Cardinality({t \in st.tests_seen : NameContainsPASSED(t)})
         IN  [passed |-> passed,
              failed |-> Cardinality(st.tests_seen) - passed,
              total  |-> Cardinality(st.tests_seen)]

\* the except branch that forgets its return
stream_error_continuing(st) ==
    [st EXCEPT !.events = Append(@, StreamEvent(st, "error", "none", FALSE, NoCounts)),
               !.pc = "collect"]

\* except Exception as e: yield error; return
stream_raise(st) == stream_error(st)

\* the request: 400 without generated code; the generator starts and
\* looks for the test file
StreamRequest ==
    /\ stream.pc = "idle"
    /\ IF VerifyStreamRejected(session_state)
       THEN /\ last' = Rejected("verify-stream")
            /\ UNCHANGED stream
       ELSE IF session_state.test_file_path = None
       THEN /\ stream' = stream_error(stream)
            /\ last' = Response("verify-stream", 200, 0, 0, 0, "no", "error")
       ELSE /\ stream' = [stream EXCEPT !.pc = "setup",
                                        !.test_file = session_state.test_file_path]
            /\ last' = Response("verify-stream", 200, 0, 0, 0, "no", "open")
    /\ UNCHANGED <<session_state, tc_current, files, implement_run, others>>

\* ensure_evidence_dir and generate_video_config, which write to disk and
\* are not guarded, then the start event
StreamStart ==
    /\ stream.pc = "setup"
    /\ \E raised \in BOOLEAN :
          IF raised
          THEN /\ stream' = stream_error(stream)
               /\ last' = Response("verify-stream", 200, 0, 0, 0, "no", "error")
          ELSE /\ stream' = [stream EXCEPT
                                !.events = Append(@, StreamEvent(stream, "start", "none",
                                                                 FALSE, NoCounts)),
                                !.pc = "spawn"]
               /\ UNCHANGED last
    /\ UNCHANGED <<session_state, tc_current, files, implement_run, others>>

\* subprocess.Popen inside the try
StreamSpawn ==
    /\ stream.pc = "spawn"
    /\ \E raised \in BOOLEAN :
          IF raised
          THEN /\ stream' = stream_raise(stream)
               /\ last' = Response("verify-stream", 200, 0, 1, 0, "no", "error")
          ELSE /\ stream' = [stream EXCEPT !.spawned = TRUE, !.pc = "read"]
               /\ UNCHANGED last
    /\ UNCHANGED <<session_state, tc_current, files, implement_run, others>>

\* for line in iter(process.stdout.readline, ''): one line
StreamReadLine ==
    /\ stream.pc = "read"
    /\ Len(stream.stdout_lines) < MaxLines
    /\ \E line \in OutputLines :
          /\ PytestPrints(Append(stream.stdout_lines, line))
          /\ stream' = stream_line(stream, line)
    /\ UNCHANGED <<session_state, last, tc_current, files, implement_run, others>>

\* readline raising inside the try
StreamReadRaises ==
    /\ stream.pc = "read"
    /\ stream' = stream_raise(stream)
    /\ last' = Response("verify-stream", 200, 0, 1, 0, "no", "error")
    /\ UNCHANGED <<session_state, tc_current, files, implement_run, others>>

\* end of the output: process.wait() and the return code
StreamExit ==
    /\ stream.pc = "read"
    /\ \E zero \in BOOLEAN :
          stream' = [stream EXCEPT !.exited = TRUE, !.return_code_zero = zero,
                                   !.pc = "collect"]
    /\ UNCHANGED <<session_state, last, tc_current, files, implement_run, others>>

\* the evidence is collected outside the try: an exception there reaches
\* the except of generate(); otherwise the complete event is yielded
StreamComplete ==
    /\ stream.pc = "collect"
    /\ \/ /\ stream' = stream_error(stream)
          /\ last' = Response("verify-stream", 200, 0, 1, 0, "no", "error")
       \/ \E report \in ReportKinds :
          LET counts == stream_counts(stream, report) IN
          /\ stream' = [stream EXCEPT
                           !.events = Append(@, StreamEvent(stream, "complete", "none",
                                                            FALSE, counts)),
                           !.pc = "done"]
          /\ last' = Response("verify-stream", 200, 0, 1, 0, "no", "complete")
    /\ UNCHANGED <<session_state, tc_current, files, implement_run, others>>

\* a generate() that writes the session behind every event
is_any_event(event) == TRUE

\* if event.get('event') == 'complete'
is_complete(event) == event.event = "complete"

\* the server asks the generator for the next event after it sent the last
\* one: generate() goes on behind its yield and, when the event was the
\* complete event, writes the session
StreamResume ==
    /\ stream.pc = "done"
    /\ ~stream.resumed
    /\ stream.events # <<>>
    /\ is_complete(stream.events[Len(stream.events)])
    /\ LET counts == stream.events[Len(stream.events)].counts IN
       session_state' =
           [session_state EXCEPT
               !.phase = "verified",
               !.test_file_path = stream.test_file,
               !.last_verification =
                   [execution_result |->
                        [success |-> stream.return_code_zero,
                         passed  |-> counts.passed,
                         failed  |-> counts.failed,
                         total   |-> counts.total],
                    test_file |-> stream.test_file]]
    /\ stream' = [stream EXCEPT !.resumed = TRUE]
    /\ UNCHANGED <<last, tc_current, files, implement_run, others>>

\* the client goes away before the complete event: the generator is closed
\* where it stands
StreamAbandon ==
    /\ stream.pc \in {"setup", "spawn", "read", "collect"}
    /\ stream' = [stream EXCEPT !.pc = "closed"]
    /\ UNCHANGED <<session_state, last, tc_current, files, implement_run, others>>

\* the session a streaming run starts from: explored, designed, implemented
ImplementedState ==
    implement_tests(DesignedState, "good", [i \in 1..ScriptLen |-> "good"]).state

InitStream ==
    /\ session_state = ImplementedState
    /\ last = Response("implement", 200, 1, 0, 0, "no", "none")
    /\ tc_current = TRUE
    /\ files = Untracked
    /\ implement_run = None
    /\ stream = StreamIdle
    /\ batch = None
    /\ disk = None
    /\ in_flight = None
    /\ llm_text = None

NextStream ==
    \/ StreamRequest
    \/ StreamStart
    \/ StreamSpawn
    \/ StreamReadLine
    \/ StreamReadRaises
    \/ StreamExit
    \/ StreamComplete
    \/ StreamResume
    \/ StreamAbandon

SpecStream == InitStream /\ [][NextStream]_vars

(***************************************************************************)
(* verification_service.py in full: the batch run, its parsed output, the  *)
(* evidence report of conftest.py, verify() and handle_critique().         *)
(***************************************************************************)
\* the tests of one file, in the order pytest runs them
TestOrder == <<"test_a", "test_PASSED">>

\* how one test ends: in its call phase (passed, failed) or with an error
\* in its fixture setup
TestOutcomes == {"passed", "failed", "error"}

\* a finished pytest process: the outcome of each test it collected
PytestRuns == UNION {[1..n -> TestOutcomes] : n \in 0..Len(TestOrder)}

StatusWord(outcome) ==
    CASE outcome = "passed" -> "PASSED"
      [] outcome = "failed" -> "FAILED"
      [] OTHER              -> "ERROR"

\* "tests/test_x.py::<name> <STATUS> [ 50%]", printed by -v: the file is in
\* TESTS_DIR and pytest runs in BASE_DIR, so the id starts with tests/
ResultLine(name, status) ==
    [kind |-> "result", dir |-> "tests/", name |-> name, status |-> status,
     msg |-> FALSE]

\* "<STATUS> tests/test_x.py::<name>" and, for FAILED and ERROR,
\* " - <message>" after it, printed by -rA in the short test summary
SummaryLine(name, status) ==
    [kind |-> "summary", dir |-> "tests/", name |-> name, status |-> status,
     msg |-> status # "PASSED"]

\* any other line (section headers, tracebacks, the final count line)
OtherLine ==
    [kind |-> "other", dir |-> "", name |-> "none", status |-> "none", msg |-> FALSE]

\* the tests of a run that ended one way, in order
TestsEnding(run, outcome) ==
    SelectSeq([i \in 1..Len(run) |-> i], LAMBDA i : run[i] = outcome)

SummaryLines(run, outcome) ==
    LET which == TestsEnding(run, outcome)
    IN  [k \in 1..Len(which) |-> SummaryLine(TestOrder[which[k]], StatusWord(outcome))]

\* the stdout of python -m pytest <file> -v --tb=long -rA: one result line
\* per test, then the short test summary: passed, then errors, then failed
PytestStdout(run) ==
    [i \in 1..Len(run) |-> ResultLine(TestOrder[i], StatusWord(run[i]))]
    \o <<OtherLine>>
    \o SummaryLines(run, "passed")
    \o SummaryLines(run, "error")
    \o SummaryLines(run, "failed")
    \o <<OtherLine>>

\* one parsed result; error says whether the failure text was attached
TestResult(name, status, error) ==
    [name |-> name, status |-> status, passed |-> status = "PASSED", error |-> error]

\* re.finditer(pattern, stdout) at one line: the test id followed by
\* white space and a status word.  \s+ also matches the end of the line,
\* so an id that ends its line matches with the word that begins the next
PatternMatchAt(stdout, i) ==
    LET line == stdout[i] IN
    IF line.kind = "result"
    THEN <<TestResult(line.name, line.status, FALSE)>>
    ELSE IF /\ line.kind = "summary"
            /\ ~line.msg
            /\ i < Len(stdout)
            /\ stdout[i + 1].kind = "summary"
    THEN <<TestResult(line.name, stdout[i + 1].status, FALSE)>>
    ELSE <<>>

RECURSIVE PatternMatches(_, _)
PatternMatches(stdout, i) ==
    IF i > Len(stdout) THEN <<>>
    ELSE PatternMatchAt(stdout, i) \o PatternMatches(stdout, i + 1)

\* failure_pattern: 'FAILED <id> - <message>' lines of the summary, where
\* the id must follow the word FAILED with nothing but one blank between
FailureCaptured(stdout, name) ==
    \E i \in 1..Len(stdout) :
        /\ stdout[i].kind = "summary"
        /\ stdout[i].status = "FAILED"
        /\ stdout[i].msg
        /\ stdout[i].dir = ""
        /\ stdout[i].name = name

\* parse_pytest_output: every match is a record; the failure text goes to
\* the first record of its test
parse_pytest_output(stdout) ==
    LET test_results == PatternMatches(stdout, 1)
        First(name) == CHOOSE i \in 1..Len(test_results) :
                           /\ test_results[i].name = name
                           /\ \A j \in 1..(i - 1) : test_results[j].name # name
    IN  [i \in 1..Len(test_results) |->
            IF FailureCaptured(stdout, test_results[i].name)
               /\ i = First(test_results[i].name)
            THEN [test_results[i] EXCEPT !.error = TRUE]
            ELSE test_results[i]]

\* what the subprocess does: it finishes, it is killed by the timeout of
\* subprocess.run, or starting it raises
Executions ==
    [kind : {"finished"}, run : PytestRuns]
    \cup [kind : {"timeout", "raised"}, run : {<<>>}]

\* result.returncode == 0: pytest found tests and none failed
ReturnCodeZero(run) ==
    Len(run) > 0 /\ \A i \in 1..Len(run) : run[i] = "passed"

\* run_pytest_with_video, with the keys verify and critique read
run_pytest_with_video_result(ex) ==
    IF ex.kind = "finished"
    THEN [success      |-> ReturnCodeZero(ex.run),
          error        |-> "none",
          test_results |-> parse_pytest_output(PytestStdout(ex.run))]
    ELSE [success      |-> FALSE,
          error        |-> ex.kind,
          test_results |-> <<>>]

\* conftest.py, pytest_runtest_makereport and pytest_sessionfinish: the
\* report holds the tests whose call phase ran
ConftestReport(run) ==
    LET called  == SelectSeq([i \in 1..Len(run) |-> i],
                             LAMBDA i : run[i] \in {"passed", "failed"})
        details == [k \in 1..Len(called) |->
                       [name   |-> TestOrder[called[k]],
                        passed |-> run[called[k]] = "passed"]]
        passed  == Cardinality({k \in 1..Len(details) : details[k].passed})
    IN  [total |-> Len(details), passed |-> passed,
         failed |-> Len(details) - passed, details |-> details]

\* the latest report_*.json of the evidence directory after a run: the one
\* this run wrote, when its session finished and the file could be
\* written, else the one that was there
EvidenceAfter(evidence, ex, written) ==
    IF ex.kind = "finished" /\ written THEN ConftestReport(ex.run) ELSE evidence

\* get_latest_evidence_report: {} is falsy, a report read from disk is not
HasReport(evidence_report) == evidence_report # None

\* number of passed entries: len([t for t in ... if t.get('passed')])
PassedIn(test_results) ==
    Cardinality({i \in 1..Len(test_results) : test_results[i].passed})

\* verify(): the report is always passed or failed after a run
VerificationService_verify(test_file_path, ex, evidence_report) ==
    LET execution_result == run_pytest_with_video_result(ex)
        test_results == execution_result.test_results
        counts ==
            IF HasReport(evidence_report)
            THEN [total  |-> evidence_report.total,
                  passed |-> evidence_report.passed,
                  failed |-> evidence_report.failed]
            ELSE [total  |-> Len(test_results),
                  passed |-> PassedIn(test_results),
                  failed |-> Len(test_results) - PassedIn(test_results)]
        test_details ==
            IF HasReport(evidence_report) /\ evidence_report.details # <<>>
            THEN evidence_report.details
            ELSE test_results
    IN  [report |->
             [status  |-> IF execution_result.success THEN "passed" ELSE "failed",
              summary |-> counts,
              tests   |-> [i \in 1..Len(test_details) |-> test_details[i].name]],
         execution_result |-> execution_result,
         test_file |-> test_file_path]

\* generate_refactor_prompt: the failed tests are looked up under the key
\* 'test_results' of the dictionary it is given
generate_refactor_prompt(code, test_results, critique) ==
    LET results == IF "test_results" \in DOMAIN test_results
                   THEN test_results.test_results ELSE <<>>
        failed_tests == SelectSeq(results, LAMBDA t : ~t.passed)
    IN  [code |-> code, critique |-> critique,
         failure_details |-> [i \in 1..Len(failed_tests) |->
                                 [name  |-> failed_tests[i].name,
                                  error |-> failed_tests[i].error]]]

\* test_results.get('execution_result', {}).get('test_results', [])
ExecutedResults(test_results) ==
    IF "execution_result" \in DOMAIN test_results
       /\ "test_results" \in DOMAIN test_results.execution_result
    THEN test_results.execution_result.test_results
    ELSE <<>>

\* a handle_critique that asks the LLM again when the call raises
handle_critique_retrying(critique, code, test_results, reply, ex) ==
    [ok |-> FALSE, llm |-> 2, runner |-> 0,
     prompt |-> generate_refactor_prompt(code, test_results, critique)]

\* handle_critique(): refactor_tests (one llm_call, which may raise), save
\* under a new name, one run of the new file
VerificationService_handle_critique(critique, code, test_results, reply, ex) ==
    LET prompt == generate_refactor_prompt(code, test_results, critique) IN
    IF reply = "raise"
    THEN [ok |-> FALSE, llm |-> 1, runner |-> 0, prompt |-> prompt]
    ELSE LET original_path == IF "test_file" \in DOMAIN test_results
                              THEN test_results.test_file
                              ELSE DefaultRefactoredPath
             new_path == save_refactored_code(original_path)
             new_execution == run_pytest_with_video_result(ex)
         IN  [ok |-> TRUE, llm |-> 1, runner |-> 1, prompt |-> prompt,
              refactored_code  |-> refactor_clean(reply),
              new_file_path    |-> new_path,
              execution_result |-> new_execution,
              improvement |->
                  [original_passed |-> PassedIn(ExecutedResults(test_results)),
                   new_passed      |-> PassedIn(new_execution.test_results)]]

\* the evidence directory is empty and no request has been answered
BatchIdle == [evidence |-> None, op |-> "none", ex |-> None, result |-> None]

\* whether conftest.py could write its report: only a session that
\* finished gets that far
ReportWritten(ex) == IF ex.kind = "finished" THEN BOOLEAN ELSE {FALSE}

\* POST /api/verify with the whole result of verify() stored
BatchVerify ==
    /\ \E ex \in Executions : \E written \in ReportWritten(ex) :
       IF VerifyRejected(session_state)
       THEN /\ last' = Rejected("verify")
            /\ UNCHANGED <<session_state, batch>>
       ELSE LET evidence == EvidenceAfter(batch.evidence, ex, written)
                result == VerificationService_verify(session_state.test_file_path,
                                                     ex, evidence) IN
            /\ CanUpdate(session_state)
            /\ session_state' = [session_state EXCEPT
                                    !.phase = "verified",
                                    !.last_verification = result,
                                    !.test_file_path = result.test_file,
                                    !.metrics = update_metrics(@)]
            /\ last' = Response("verify", 200, 0, 1, 0, "no", "none")
            /\ batch' = [evidence |-> evidence, op |-> "verify", ex |-> ex,
                         result |-> result]
    /\ UNCHANGED <<tc_current, files, implement_run, stream, disk, llm_text, in_flight>>

\* the lines and the names a streaming run of the same tests reads
StreamedRun(run) ==
    [stdout_lines |-> [i \in 1..Len(run) |->
                          [name |-> TestOrder[i], status |-> StatusWord(run[i])]],
     tests_seen   |-> {TestOrder[i] : i \in 1..Len(run)}]

\* POST /api/verify-stream, run to its complete event: the data of the
\* event is stored as execution_result
BatchVerifyStream ==
    /\ \E run \in PytestRuns : \E written \in BOOLEAN :
       IF VerifyStreamRejected(session_state)
       THEN /\ last' = Rejected("verify-stream")
            /\ UNCHANGED <<session_state, batch>>
       ELSE LET counts == stream_counts(StreamedRun(run),
                                        IF written THEN "written" ELSE "none") IN
            /\ written \/ batch.evidence = None
            /\ session_state' = [session_state EXCEPT
                                    !.phase = "verified",
                                    !.last_verification =
                                        [execution_result |->
                                             [success |-> ReturnCodeZero(run),
                                              passed  |-> counts.passed,
                                              failed  |-> counts.failed,
                                              total   |-> counts.total],
                                         test_file |-> session_state.test_file_path]]
            /\ last' = Response("verify-stream", 200, 0, 1, 0, "no", "complete")
            /\ batch' = [evidence |-> EvidenceAfter(batch.evidence,
                                                    [kind |-> "finished", run |-> run],
                                                    written),
                         op |-> "verify-stream",
                         ex |-> [kind |-> "finished", run |-> run],
                         result |-> None]
    /\ UNCHANGED <<tc_current, files, implement_run, stream, disk, llm_text, in_flight>>

\* replies of the LLM to the refactoring prompt: an exception or code
BatchReplies == {"raise", "good"}

\* POST /api/critique with the whole result of handle_critique()
BatchCritique ==
    /\ \E critique \in {"", "critique"} :
       \E reply \in IF critique = "" THEN {"raise"} ELSE BatchReplies :
       \E ex \in IF reply = "raise" THEN {[kind |-> "raised", run |-> <<>>]}
                 ELSE Executions :
       \E written \in ReportWritten(ex) :
       IF critique = "" \/ CritiqueRejected(session_state)
       THEN /\ last' = Rejected("critique")
            /\ UNCHANGED <<session_state, batch>>
       ELSE LET result == VerificationService_handle_critique(
                              critique, session_state.generated_code,
                              session_state.last_verification, reply, ex) IN
            IF ~result.ok
            THEN /\ last' = Response("critique", 500, result.llm, result.runner, 0,
                                     "first", "none")
                 /\ batch' = [batch EXCEPT !.op = "critique", !.ex = None,
                                           !.result = result]
                 /\ UNCHANGED session_state
            ELSE /\ CanUpdate(session_state)
                 /\ result.new_file_path.refactored <= MaxRefactored
                 /\ session_state' = [session_state EXCEPT
                                         !.generated_code = result.refactored_code,
                                         !.test_file_path = result.new_file_path,
                                         !.last_verification =
                                             [execution_result |-> result.execution_result,
                                              test_file |-> result.new_file_path],
                                         !.metrics = update_metrics(@)]
                 /\ last' = Response("critique", 200, result.llm, result.runner, 0,
                                     "no", "none")
                 /\ batch' = [evidence |-> EvidenceAfter(batch.evidence, ex, written),
                              op |-> "critique", ex |-> ex, result |-> result]
    /\ UNCHANGED <<tc_current, files, implement_run, stream, disk, llm_text, in_flight>>

\* the session the verifications start from: explored, designed and
\* implemented, with room for two more updates of the metrics
BatchSession ==
    [implement_tests(ExploredAndDesigned(create_initial_state), "good",
                     [i \in 1..ScriptLen |-> "good"]).state
        EXCEPT !.metrics.iteration_count = MaxIter - 2]

InitBatch ==
    /\ session_state = BatchSession
    /\ last = Response("implement", 200, 1, 0, 0, "no", "none")
    /\ tc_current = TRUE
    /\ files = Untracked
    /\ implement_run = None
    /\ stream = None
    /\ batch = BatchIdle
    /\ disk = None
    /\ in_flight = None
    /\ llm_text = None

NextBatch ==
    \/ BatchVerify
    \/ BatchVerifyStream
    \/ BatchCritique

SpecBatch == InitBatch /\ [][NextBatch]_vars

(***************************************************************************)
(* The test files on disk: implementation_service.py, save_test_file, and  *)
(* verification_service.py, save_refactored_code, with the clock that      *)
(* names them.                                                             *)
(***************************************************************************)
\* the pages explored: two URLs that differ in one character
DiskUrls == {[scheme |-> "https", host |-> "a.example/x"],
             [scheme |-> "https", host |-> "a.example.x"]}

\* generate_test_filename: the scheme is removed, every character that is
\* no letter, digit, underscore or hyphen becomes '_', 30 characters kept
clean_name(url) ==
    CASE url.host = "a.example/x" -> "a_example_x"
      [] url.host = "a.example.x" -> "a_example_x"
      [] url.host = "a.example"   -> "a_example"
      [] OTHER                    -> "unknown"

\* datetime.now().strftime('%Y%m%d_%H%M%S'): the clock read to the second
strftime(now) == now

\* test_<clean_name>_<timestamp>.py in the tests directory
generate_test_filename(url, now) ==
    [name |-> clean_name(url), timestamp |-> strftime(now), refactored |-> <<>>]

\* a save_refactored_code that writes over the file it was given
save_refactored_code_in_place(original_path, now) == original_path

\* <stem>_refactored_<timestamp>.py next to the original
save_refactored_code_at(original_path, now) ==
    [original_path EXCEPT !.refactored = Append(@, strftime(now))]

\* open(path, 'w').write(header + code): the file is created or replaced
WriteFile(tests_dir, path, content) ==
    [p \in DOMAIN tests_dir \cup {path} |->
        IF p = path THEN content ELSE tests_dir[p]]

\* a save_test_file that writes the header alone
TestFileContentHeaderOnly(code, url, now) ==
    [header |-> [kind |-> "generated", on |-> strftime(now), target |-> url],
     code   |-> ""]

\* the header save_test_file puts before the code
TestFileContent(code, url, now) ==
    [header |-> [kind |-> "generated", on |-> strftime(now), target |-> url],
     code   |-> code]

\* the header save_refactored_code puts before the code
RefactoredFileContent(code, original_path, now) ==
    [header |-> [kind |-> "refactored", on |-> strftime(now), target |-> original_path],
     code   |-> code]

\* an empty tests directory at second 0
DiskIdle == [clock |-> 0, tests_dir |-> <<>>, implemented |-> {}]

\* a second passes
DiskTick ==
    /\ disk.clock < MaxClock
    /\ disk' = [disk EXCEPT !.clock = @ + 1]
    /\ UNCHANGED <<session_state, last, tc_current, files, implement_run, stream,
                   batch, llm_text, in_flight>>

\* POST /api/explore of one of the pages
DiskExplore ==
    /\ \E url \in DiskUrls :
       \E r \in {explore_url(session_state, url, "ok", "object")} :
          /\ CanUpdate(session_state)
          /\ session_state' = r.state
          /\ last' = r.resp
    /\ UNCHANGED <<tc_current, files, implement_run, stream, batch, disk, llm_text, in_flight>>

\* POST /api/implement: the code is saved under the name made from the
\* page URL and the clock
DiskImplement ==
    /\ \E code \in {"good", "noassert", "heading"} :
       \E r \in {implement_tests(session_state, code, [i \in 1..ScriptLen |-> "good"])} :
          IF r.resp.status # 200
          THEN /\ session_state' = r.state
               /\ last' = r.resp
               /\ UNCHANGED disk
          ELSE LET path == generate_test_filename(session_state.page_structure.url,
                                                  disk.clock) IN
               /\ CanUpdate(session_state)
               /\ session_state' = [r.state EXCEPT !.test_file_path = path]
               /\ last' = r.resp
               /\ disk' = [disk EXCEPT
                              !.tests_dir =
                                  WriteFile(@, path,
                                            TestFileContent(r.state.generated_code,
                                                            session_state.page_structure.url,
                                                            disk.clock)),
                              !.implemented = @ \cup {path}]
    /\ UNCHANGED <<tc_current, files, implement_run, stream, batch, llm_text, in_flight>>

\* POST /api/verify: the session's file is run, no test file is written
DiskVerify ==
    /\ \E r \in {verify_tests(session_state, CHOOSE o \in RunOutcomes : o.success)} :
          /\ r.resp.status = 200 => CanUpdate(session_state)
          /\ session_state' = r.state
          /\ last' = r.resp
    /\ UNCHANGED <<tc_current, files, implement_run, stream, batch, disk, llm_text, in_flight>>

\* POST /api/critique: the refactored code is saved next to the file of
\* the last verification
DiskCritique ==
    /\ \E reply \in {"good", "noassert"} :
          IF CritiqueRejected(session_state)
          THEN /\ last' = Rejected("critique")
               /\ UNCHANGED <<session_state, disk>>
          ELSE LET original_path == session_state.last_verification.test_file
                   new_path == save_refactored_code_at(original_path, disk.clock)
                   execution == CHOOSE o \in RunOutcomes : o.success IN
               /\ CanUpdate(session_state)
               /\ Len(original_path.refactored) <= MaxRefactored
               /\ session_state' =
                      [session_state EXCEPT
                          !.generated_code = refactor_clean(reply),
                          !.test_file_path = new_path,
                          !.last_verification =
                              [execution_result |-> execution,
                               test_file        |-> new_path],
                          !.metrics = update_metrics(@)]
               /\ last' = Response("critique", 200, 1, 1, 0, "no", "none")
               /\ disk' = [disk EXCEPT
                              !.tests_dir =
                                  WriteFile(@, new_path,
                                            RefactoredFileContent(refactor_clean(reply),
                                                                  original_path,
                                                                  disk.clock))]
    /\ UNCHANGED <<tc_current, files, implement_run, stream, batch, llm_text, in_flight>>

\* the session the file operations start from: one page explored and
\* designed, with room for four more updates of the metrics
DiskSession ==
    [design_tests(
         explore_url(create_initial_state,
                     [scheme |-> "https", host |-> "a.example/x"], "ok", "object").state,
         [kind |-> "array", cases |-> <<1>>]).state
        EXCEPT !.metrics.iteration_count = MaxIter - 4]

InitDisk ==
    /\ session_state = DiskSession
    /\ last = Response("design", 200, 1, 0, 0, "no", "none")
    /\ tc_current = TRUE
    /\ files = Untracked
    /\ implement_run = None
    /\ stream = None
    /\ batch = None
    /\ disk = DiskIdle
    /\ in_flight = None
    /\ llm_text = None

NextDisk ==
    \/ DiskTick
    \/ DiskExplore
    \/ DiskImplement
    \/ DiskVerify
    \/ DiskCritique

SpecDisk == InitDisk /\ [][NextDisk]_vars

(***************************************************************************)
(* The response parsers of exploration_service.py and design_service.py,   *)
(* applied to the text of one LLM response (SpecParse).  A text is an      *)
(* optional line of prose, an optional markdown fence and a body.           *)
(***************************************************************************)
\* JSON objects the LLM may send: empty, a page model, a page model whose
\* "elements" is a number, one whose "pageMetadata" is a string, and an
\* object that wraps the test cases
ObjectShapes == {"empty", "page", "elements_scalar", "meta_scalar", "wrapper"}
JsonObjects == [type : {"object"}, shape : ObjectShapes]
\* JSON arrays of test cases
JsonArrays == [type : {"array"}, items : SeqsUpTo(TcIds, MaxCases)]
\* JSON strings (empty or not), numbers, null and booleans
JsonScalars ==
    [type : {"string"}, chars : {0, 1}] \cup [type : {"number", "null", "bool"}]
JsonValues == JsonObjects \cup JsonArrays \cup JsonScalars

\* bodies that are no JSON: free text, and nothing at all
NonJson == [type : {"garbage", "empty"}]

\* fences: none, ```json, a bare ```, and ``` followed by another language tag
Fences == {"none", "json", "bare", "lang"}
LlmTexts == [before : {"", "prose"}, fence : Fences, body : JsonValues \cup NonJson]

\* re.sub(r'```json|```', '', response_text).strip(): the fence markers go,
\* a language tag other than json stays in front of the body, and so does
\* any prose
clean_text(response_text) ==
    [before |-> IF response_text.fence = "lang" THEN "prose" ELSE response_text.before,
     fence  |-> "none",
     body   |-> response_text.body]

\* the outcome of a block of code: a value, or the exception it raised
Returned(v) == [exc |-> "none", value |-> v]
Raised(e)   == [exc |-> e, value |-> None]

\* json.loads: the whole text must be one JSON value
json_loads(text) ==
    IF text.before = "prose" \/ text.fence # "none" \/ text.body \in NonJson
    THEN Raised("JSONDecodeError")
    ELSE Returned(text.body)

\* get_default_structure: the empty page model of the url
get_default_structure(url) ==
    [type |-> "object", shape |-> "default", url |-> url]

\* the try block of the explore parser: json.loads, then the log lines that
\* call parsed.keys() and len(parsed.get('elements', []))
exploration_try(response_text) ==
    LET parsed == json_loads(clean_text(response_text)) IN
    IF parsed.exc # "none" THEN parsed
    ELSE IF parsed.value.type # "object" THEN Raised("AttributeError")
    ELSE IF parsed.value.shape = "elements_scalar" THEN Raised("TypeError")
    ELSE parsed

\* a parser whose handlers stop at JSONDecodeError
exploration_parse_response_decode_only(response_text, url) ==
    LET body == exploration_try(response_text) IN
    IF body.exc \in {"none", "JSONDecodeError"}
    THEN Returned(IF body.exc = "none" THEN body.value ELSE get_default_structure(url))
    ELSE body

\* ExplorationService.parse_response: both except clauses return the default
exploration_parse_response(response_text, url) ==
    LET body == exploration_try(response_text) IN
    IF body.exc = "none" THEN Returned(body.value)
    ELSE Returned(get_default_structure(url))

\* get_default_test_cases as a JSON value
default_test_cases == [type |-> "array", items |-> get_default_test_cases]

\* the try block of the design parser: json.loads, then the log line that
\* calls len(parsed), which lists, objects and strings all answer
design_try(response_text) ==
    LET parsed == json_loads(clean_text(response_text)) IN
    IF parsed.exc # "none" THEN parsed
    ELSE IF parsed.value.type \in {"number", "null", "bool"} THEN Raised("TypeError")
    ELSE parsed

\* DesignService.parse_response: both except clauses return the default
design_parse_response(response_text) ==
    LET body == design_try(response_text) IN
    IF body.exc = "none" THEN Returned(body.value)
    ELSE Returned(default_test_cases)

\* save_page_model: page_data.get('pageMetadata', {}).get(...) needs the
\* metadata to be an object
save_page_model(page_data) ==
    IF page_data.shape = "meta_scalar" THEN Raised("AttributeError")
    ELSE Returned("page_model.json")

\* explore() after the LLM call: parse, attach raw_dom, save
ExplorationService_explore(response_text, url) ==
    LET page_data == exploration_parse_response(response_text, url) IN
    IF page_data.exc # "none" THEN page_data
    ELSE LET path == save_page_model(page_data.value) IN
         IF path.exc # "none" THEN path ELSE page_data

\* save_test_cases: tc.get('priority') for every tc in test_cases, that is
\* for every key of an object and every character of a string
save_test_cases(test_cases) ==
    IF \/ test_cases.type = "object" /\ test_cases.shape # "empty"
       \/ test_cases.type = "string" /\ test_cases.chars > 0
    THEN Raised("AttributeError")
    ELSE Returned("test_cases.json")

\* design() after the LLM call: parse, save
DesignService_design(response_text) ==
    LET test_cases == design_parse_response(response_text) IN
    IF test_cases.exc # "none" THEN test_cases
    ELSE LET path == save_test_cases(test_cases.value) IN
         IF path.exc # "none" THEN path ELSE test_cases

\* the url of the exploration the text answers
ParseUrl == [scheme |-> "https", host |-> "a.example"]

ParseOps == {"explore.parse_response", "design.parse_response", "explore", "design"}

Applied(op, result) == [llm_text EXCEPT !.op = op, !.result = result]

ParseExplore ==
    /\ llm_text # None
    /\ llm_text' = Applied("explore.parse_response",
                           exploration_parse_response(llm_text.text, ParseUrl))
    /\ UNCHANGED <<session_state, last, tc_current, files, implement_run, stream,
                   batch, disk, in_flight>>

ParseDesign ==
    /\ llm_text # None
    /\ llm_text' = Applied("design.parse_response",
                           design_parse_response(llm_text.text))
    /\ UNCHANGED <<session_state, last, tc_current, files, implement_run, stream,
                   batch, disk, in_flight>>

RunExplore ==
    /\ llm_text # None
    /\ llm_text' = Applied("explore", ExplorationService_explore(llm_text.text, ParseUrl))
    /\ UNCHANGED <<session_state, last, tc_current, files, implement_run, stream,
                   batch, disk, in_flight>>

RunDesign ==
    /\ llm_text # None
    /\ llm_text' = Applied("design", DesignService_design(llm_text.text))
    /\ UNCHANGED <<session_state, last, tc_current, files, implement_run, stream,
                   batch, disk, in_flight>>

\* one LLM response text, nothing applied to it yet
InitParse ==
    /\ session_state = create_initial_state
    /\ last = Response("init", 200, 0, 0, 0, "no", "none")
    /\ tc_current = FALSE
    /\ files = Untracked
    /\ implement_run = None
    /\ stream = None
    /\ batch = None
    /\ disk = None
    /\ in_flight = None
    /\ llm_text \in [text : LlmTexts, op : {"none"}, result : {None}]

NextParse ==
    \/ ParseExplore
    \/ ParseDesign
    \/ RunExplore
    \/ RunDesign

SpecParse == InitParse /\ [][NextParse]_vars

(***************************************************************************)
(* The source-code extractor of implementation_service.py, applied to one  *)
(* LLM response and then to its own output (SpecExtract).  A text is an     *)
(* optional opening heading, an optional fence, a body, an optional        *)
(* trailing section and an optional final line break.                      *)
(***************************************************************************)
\* bodies: a test module (it imports), prose (it does not), nothing, and
\* the template of get_default_code for a number of test cases
SourceBodies == [kind : {"good", "prose", "empty"}, comments : {0}]
TemplateBodies == [kind : {"template"}, comments : 0..MaxCases]

\* trailing sections: none, **Note**, ## How to, a horizontal rule
Trailers == {"", "note", "howto", "rule"}

SourceTexts ==
    [heading : BOOLEAN, fence : {"none", "python", "bare"}, body : SourceBodies,
     trailer : Trailers, newline : BOOLEAN]

\* 'import' in code
HasImport(text) == text.body.kind \in {"good", "template"}

\* get_default_code: the template with one comment per test case, closed
\* by a line break
ImplementationService_get_default_code(test_cases) ==
    [heading |-> FALSE, fence |-> "none", body |-> [kind |-> "template", comments |-> test_cases],
     trailer |-> "", newline |-> TRUE]

\* re.sub(r'```python|```', '', response_text).strip()
strip_fences(text) == [text EXCEPT !.fence = "none", !.newline = FALSE]

\* patterns_to_remove: the trailing section goes
remove_trailers(text) == [text EXCEPT !.trailer = ""]

\* the line scan stops at the first line that opens with ** or ##, so a
\* text that opens with a heading keeps nothing
valid_lines(text) ==
    IF text.heading
    THEN [text EXCEPT !.heading = FALSE, !.body = [kind |-> "empty", comments |-> 0]]
    ELSE text

\* ImplementationService.parse_response
ImplementationService_parse_response(response_text, test_cases) ==
    LET code == valid_lines(remove_trailers(strip_fences(response_text)))
    IN  IF ~HasImport(code)
        THEN ImplementationService_get_default_code(test_cases)
        ELSE code

\* parse_response applied to the response
ExtractCode ==
    /\ llm_text # None
    /\ llm_text.once = None
    /\ llm_text' = [llm_text EXCEPT !.once =
            ImplementationService_parse_response(llm_text.text, llm_text.test_cases)]
    /\ UNCHANGED <<session_state, last, tc_current, files, implement_run, stream,
                   batch, disk, in_flight>>

\* parse_response applied to its own output
ExtractAgain ==
    /\ llm_text # None
    /\ llm_text.once # None
    /\ llm_text' = [llm_text EXCEPT !.twice =
            ImplementationService_parse_response(llm_text.once, llm_text.test_cases)]
    /\ UNCHANGED <<session_state, last, tc_current, files, implement_run, stream,
                   batch, disk, in_flight>>

\* one response text and the number of test cases of the session
InitExtract ==
    /\ session_state = create_initial_state
    /\ last = Response("init", 200, 0, 0, 0, "no", "none")
    /\ tc_current = FALSE
    /\ files = Untracked
    /\ implement_run = None
    /\ stream = None
    /\ batch = None
    /\ disk = None
    /\ in_flight = None
    /\ llm_text \in [text : SourceTexts, test_cases : 0..MaxCases,
                     once : {None}, twice : {None}]

NextExtract ==
    \/ ExtractCode
    \/ ExtractAgain

SpecExtract == InitExtract /\ [][NextExtract]_vars

(***************************************************************************)
(* refine_test_cases of design_service.py applied to one collection of     *)
(* test cases with pairwise distinct ids and one LLM reply (SpecRefine).    *)
(***************************************************************************)
\* cap on the number of test cases of one "add" reply
MaxNew == 2

\* no id occurs twice
IdsDistinct(cases) ==
    \A i, j \in 1..Len(cases) : cases[i] = cases[j] => i = j

\* collections the session may hold: ids proposed by the LLM, all different
DistinctCollections == {c \in SeqsUpTo(TcIds, 2) : IdsDistinct(c)}

\* replies to the refinement prompt, "add" with up to MaxNew cases
RefineRunReplies ==
    RefineReplies
    \cup {[kind |-> "object", action |-> "add", test_cases |-> c, remove_ids |-> {}] :
            c \in SeqsUpTo({0} \cup TcIds, MaxNew)}

\* POST /api/refine with feedback: refine_test_cases on the session's test
\* cases, then the handler's assignments
RefineApply ==
    /\ llm_text # None
    /\ llm_text.result = None
    /\ llm_text' = [llm_text EXCEPT !.result =
            design_service_refine(session_state.test_cases, session_state.page_structure,
                                  llm_text.reply)]
    /\ \E r \in {refine_tests(session_state, "feedback", llm_text.reply)} :
          /\ session_state' = r.state
          /\ last' = r.resp
    /\ UNCHANGED <<tc_current, files, implement_run, stream, batch, disk, in_flight>>

\* the session the refinement meets: explored, designed and implemented
RefineSession(current) ==
    [implement_tests(ExploredAndDesigned(create_initial_state), "good",
                     [i \in 1..ScriptLen |-> "good"]).state
        EXCEPT !.test_cases = current]

InitRefine ==
    /\ llm_text \in [current : DistinctCollections, reply : RefineRunReplies,
                     result : {None}]
    /\ session_state = RefineSession(llm_text.current)
    /\ last = Response("implement", 200, 1, 0, 0, "no", "none")
    /\ tc_current = TRUE
    /\ files = Untracked
    /\ implement_run = None
    /\ stream = None
    /\ batch = None
    /\ disk = None
    /\ in_flight = None

NextRefine == RefineApply

SpecRefine == InitRefine /\ [][NextRefine]_vars

(***************************************************************************)
(* main.py under the threaded development server (SpecRace): two requests  *)
(* are handled at the same time.  Each handler is followed statement by    *)
(* statement: the precondition check, the service call with the arguments  *)
(* it reads, and one step per assignment to session_state.  The global is  *)
(* looked up again by every statement, so a handler that is still running  *)
(* after a reset writes into the new dictionary.                           *)
(***************************************************************************)
Requests == {1, 2}
RaceOps == {"design", "implement", "verify-stream", "reset"}

\* the test file of an implement call that read the clock at `now`
RaceFile(url, now) == [url |-> url, refactored |-> 0, timestamp |-> now]

\* one assignment session_state[field] = value
Assignment(field, value) == [field |-> field, value |-> value]

\* implement_tests that stores code and path in one step
implement_assignments_atomic(result, file_path) ==
    << Assignment("code_and_path", [code |-> result.code, file_path |-> file_path]),
       Assignment("phase", "implemented"),
       Assignment("metrics", "update") >>

\* implement_tests: the assignments behind implementation_service.implement
implement_assignments(result, file_path) ==
    << Assignment("generated_code", result.code),
       Assignment("test_file_path", file_path),
       Assignment("phase", "implemented"),
       Assignment("metrics", "update") >>

\* design_tests: the assignments behind design_service.design
design_assignments(result) ==
    << Assignment("test_cases", result.test_cases),
       Assignment("phase", "designed"),
       Assignment("metrics", "update") >>

\* generate(): the assignments behind the complete event
stream_assignments(test_file_path) ==
    << Assignment("phase", "verified"),
       Assignment("test_file_path", test_file_path),
       Assignment("last_verification",
                  [execution_result |-> [success |-> TRUE, passed |-> 1,
                                         failed |-> 0, total |-> 1],
                   test_file |-> test_file_path]) >>

\* the statement session_state[field] = value, on the dictionary the global
\* names when the statement runs
Assign(s, a) ==
    CASE a.field = "generated_code"    -> [s EXCEPT !.generated_code = a.value]
      [] a.field = "test_file_path"    -> [s EXCEPT !.test_file_path = a.value]
      [] a.field = "code_and_path"     -> [s EXCEPT !.generated_code = a.value.code,
                                                    !.test_file_path = a.value.file_path]
      [] a.field = "test_cases"        -> [s EXCEPT !.test_cases = a.value]
      [] a.field = "phase"             -> [s EXCEPT !.phase = a.value]
      [] a.field = "last_verification" -> [s EXCEPT !.last_verification = a.value]
      [] a.field = "metrics"           -> [s EXCEPT !.metrics = update_metrics(s.metrics)]

\* a request slot before its request arrives
RequestIdle ==
    [op |-> "none", pc |-> "idle", todo |-> <<>>, result |-> None, stale |-> FALSE]

RaceIdle ==
    [reqs |-> [r \in Requests |-> RequestIdle], reset_done |-> FALSE, fresh |-> FALSE]

\* the precondition check of each handler
RaceRejected(op, s) ==
    CASE op = "design"        -> DesignRejected(s)
      [] op = "implement"     -> ImplementRejected(s)
      [] op = "verify-stream" -> VerifyStreamRejected(s)
      [] OTHER                -> FALSE

\* a request arrives and its handler checks the precondition
RaceStart(r) ==
    /\ in_flight.reqs[r].pc = "idle"
    /\ \E op \in RaceOps \ {"reset"} :
          IF RaceRejected(op, session_state)
          THEN /\ in_flight' = [in_flight EXCEPT !.reqs[r].op = op, !.reqs[r].pc = "done"]
               /\ last' = Rejected(op)
          ELSE /\ in_flight' = [in_flight EXCEPT !.reqs[r].op = op,
                                                 !.reqs[r].pc = "checked"]
               /\ UNCHANGED last
    /\ UNCHANGED <<session_state, tc_current, files, implement_run, stream, batch, disk,
                   llm_text>>

\* the handler reads the arguments from session_state and the service runs
\* to its end; the replies of the LLM are good ones
RaceCall(r) ==
    /\ in_flight.reqs[r].pc = "checked"
    /\ LET req == in_flight.reqs[r]
           s   == session_state
           fail == /\ in_flight' = [in_flight EXCEPT !.reqs[r].pc = "done"]
                   /\ last' = Response(req.op, 500, 0, 0, 0, "no", "none")
       IN
       CASE req.op = "design" ->
              \E cases \in {<<1>>, <<2>>} :
                LET result == design_service_design(s.page_structure,
                                                    [kind |-> "array", cases |-> cases])
                IN  IF ~result.ok THEN fail
                    ELSE /\ in_flight' = [in_flight EXCEPT
                                !.reqs[r].pc = "assign",
                                !.reqs[r].result = result,
                                !.reqs[r].todo = design_assignments(result)]
                         /\ UNCHANGED last
         [] req.op = "implement" ->
              \E initial \in {"good", "noassert"}, now \in 1..MaxClock :
                LET result == implementation_implement(
                                  s.test_cases, s.page_structure, initial,
                                  [i \in 1..ScriptLen |-> "good"])
                IN  IF ~result.ok THEN fail
                    ELSE LET file_path == RaceFile(s.page_structure.url, now) IN
                         /\ in_flight' = [in_flight EXCEPT
                                !.reqs[r].pc = "assign",
                                !.reqs[r].result = [code |-> result.code,
                                                    file_path |-> file_path],
                                !.reqs[r].todo = implement_assignments(result, file_path)]
                         /\ UNCHANGED last
         [] req.op = "verify-stream" ->
              IF s.test_file_path = None THEN fail
              ELSE /\ in_flight' = [in_flight EXCEPT
                          !.reqs[r].pc = "assign",
                          !.reqs[r].result = [test_file |-> s.test_file_path],
                          !.reqs[r].todo = stream_assignments(s.test_file_path)]
                   /\ UNCHANGED last
    /\ UNCHANGED <<session_state, tc_current, files, implement_run, stream, batch, disk,
                   llm_text>>

\* one assignment of a running handler; after the last one it answers 200
RaceAssign(r) ==
    /\ in_flight.reqs[r].pc = "assign"
    /\ LET req == in_flight.reqs[r] IN
       /\ session_state' = Assign(session_state, Head(req.todo))
       /\ in_flight' = [in_flight EXCEPT
              !.reqs[r].todo = Tail(req.todo),
              !.reqs[r].pc = IF Len(req.todo) = 1 THEN "done" ELSE "assign",
              !.fresh = @ \/ ~req.stale]
       /\ IF Len(req.todo) = 1
          THEN last' = Response(req.op, 200, 0, 0, 0, "no", "none")
          ELSE UNCHANGED last
    /\ UNCHANGED <<tc_current, files, implement_run, stream, batch, disk, llm_text>>

\* reset_session: the global is bound to a fresh dictionary; the handlers
\* that are running started before this reset
RaceReset(r) ==
    /\ in_flight.reqs[r].pc = "idle"
    /\ session_state' = reset_session(session_state)
    /\ in_flight' =
           [reqs |-> [q \in Requests |->
                        IF q = r
                        THEN [RequestIdle EXCEPT !.op = "reset", !.pc = "done"]
                        ELSE [in_flight.reqs[q] EXCEPT !.stale = TRUE]],
            reset_done |-> TRUE,
            fresh |-> FALSE]
    /\ last' = Response("reset", 200, 0, 0, 0, "no", "none")
    /\ UNCHANGED <<tc_current, files, implement_run, stream, batch, disk, llm_text>>

\* the session the requests meet: explored, designed and implemented
RaceSession ==
    implement_tests(ExploredAndDesigned(create_initial_state), "good",
                    [i \in 1..ScriptLen |-> "good"]).state

InitRace ==
    /\ session_state = RaceSession
    /\ last = Response("implement", 200, 1, 0, 0, "no", "none")
    /\ tc_current = TRUE
    /\ files = Untracked
    /\ implement_run = None
    /\ stream = None
    /\ batch = None
    /\ disk = None
    /\ llm_text = None
    /\ in_flight = RaceIdle

NextRace ==
    \/ \E r \in Requests : RaceStart(r)
    \/ \E r \in Requests : RaceCall(r)
    \/ \E r \in Requests : RaceAssign(r)
    \/ \E r \in Requests : RaceReset(r)

SpecRace == InitRace /\ [][NextRace]_vars

(***************************************************************************)
(* Properties of the phase state machine.                                  *)
(***************************************************************************)
\* what a step leaves in `last` says which handler ran and how it answered
NoCollaboratorCall(resp) == resp.llm = 0 /\ resp.runner = 0 /\ resp.browser = 0

\* C1: design() without a PageModel, implement() without TestCases and
\* verify()/verify-stream without generated code are rejected with 400,
\* call no collaborator and leave the whole session state as it was
C1_RejectedWithoutEffect ==
    [][ LET violated ==
              \/ last'.op = "design" /\ session_state.page_structure = None
              \/ last'.op = "implement" /\ session_state.test_cases = <<>>
              \/ last'.op \in {"verify", "verify-stream"} /\ session_state.generated_code = ""
        IN  violated => /\ last'.status = 400
                        /\ NoCollaboratorCall(last')
                        /\ session_state' = session_state ]_vars

\* a streaming verify was rejected in a session that has test cases but no code
C1_Witness ==
    /\ last.op = "verify-stream" /\ last.status = 400
    /\ session_state.phase = "designed" /\ session_state.test_cases # <<>>
    /\ session_state.generated_code = ""

\* C2: a Workflow that holds generated code also holds at least one TestCase
C2_ArtifactImpliesTestCases ==
    session_state.generated_code # "" => session_state.test_cases # <<>>

\* C3: a Workflow that holds a last verification also holds generated code
C3_ReportImpliesArtifact ==
    session_state.last_verification # None => session_state.generated_code # ""

\* C4: a Workflow that holds a non-empty TestCases collection also holds a
\* PageModel
C4_TestCasesImplyPageModel ==
    session_state.test_cases # <<>> => session_state.page_structure # None

\* test cases are held in a session that went on to verification
C4_Witness ==
    /\ session_state.test_cases # <<>>
    /\ session_state.phase = "verified"
    /\ last.op = "refine" /\ last.status = 500

\* C5: implement() passes its precondition check exactly when the phase is
\* designed, implemented or verified
C5_ImplementGatedByPhase ==
    [][ last'.op = "implement" =>
            ((last'.status # 400) <=>
             session_state.phase \in {"designed", "implemented", "verified"}) ]_vars

\* C6: verify() and verify-stream pass their precondition check exactly
\* when the phase is implemented or verified
C6_VerifyGatedByPhase ==
    [][ last'.op \in {"verify", "verify-stream"} =>
            ((last'.status # 400) <=>
             session_state.phase \in {"implemented", "verified"}) ]_vars

\* C7: critique() is accepted only in phase verified; in every other phase
\* it is rejected without calling the LLM or the test runner
C7_CritiqueOnlyWhenVerified ==
    [][ (last'.op = "critique" /\ session_state.phase # "verified") =>
            (last'.status = 400 /\ last'.llm = 0 /\ last'.runner = 0) ]_vars

\* C8: whenever implement() passes its precondition check, the TestCases
\* were written by design() or refine after the latest explore()
C8_ImplementUsesCurrentCases ==
    [][ (last'.op = "implement" /\ last'.status # 400) => tc_current ]_vars

\* C9: when the first (or only) LLM call of explore, design, refine,
\* critique or implement raises, the request answers with an error and
\* the whole session state is what it was before the request
C9_LlmFailureLeavesState ==
    [][ (last'.op \in {"explore", "design", "refine", "critique", "implement"}
         /\ last'.llm_raised = "first") =>
            (last'.status = 500 /\ session_state' = session_state) ]_vars

\* the generation call of implement raised in a designed session
C9_Witness ==
    /\ last.op = "implement" /\ last.llm_raised = "first" /\ last.status = 500
    /\ session_state.phase = "designed" /\ session_state.generated_code = ""

\* C10 as stated: an LLM failure anywhere inside implement(), a correction
\* round included, gives an error response and leaves the session state
C10_AnyLlmFailureIsAnError ==
    [][ (last'.op = "implement" /\ last'.llm_raised # "no") =>
            (last'.status >= 400 /\ session_state' = session_state) ]_vars

\* C10 amended: a failure of the generation call gives a 500 and leaves
\* the session state; a failure inside a correction round is absorbed:
\* implement() answers 200 and the session advances to implemented with
\* the candidate of that round, which still has its critical issues
C10_CorrectionFailureAbsorbed ==
    [][ (last'.op = "implement" /\ last'.llm_raised # "no") =>
            IF last'.llm_raised = "first"
            THEN last'.status = 500 /\ session_state' = session_state
            ELSE /\ last'.status = 200
                 /\ session_state'.phase = "implemented"
                 /\ session_state'.generated_code # ""
                 /\ CriticalIssues(session_state'.generated_code) # <<>>
                 /\ session_state'.test_file_path # None ]_vars

\* an implement whose correction call raised has answered 200
C10_Witness ==
    /\ last.op = "implement" /\ last.llm_raised = "correction" /\ last.status = 200
    /\ session_state.phase = "implemented"

PhaseAfter(resp, phase) ==
    CASE resp.op = "reset" -> "idle"
      [] resp.op = "explore" /\ resp.status = 200 -> "explored"
      [] resp.op \in {"design", "refine"} /\ resp.status = 200 -> "designed"
      [] resp.op = "implement" /\ resp.status = 200 -> "implemented"
      [] resp.op = "verify" /\ resp.status = 200 -> "verified"
      [] resp.op = "verify-stream" /\ resp.event = "complete" -> "verified"
      [] OTHER -> phase

\* C12: the phase changes only by a successful explore (explored), design
\* or refine (designed), implement (implemented), verify or a verify-stream
\* that reached complete (verified) and reset (idle); critique and every
\* failed or rejected request leave it as it was
C12_PhaseTransitions ==
    [][ session_state'.phase = PhaseAfter(last', session_state.phase) ]_vars

\* a critique has succeeded in a session whose phase implement had moved
\* back to implemented, and the phase is still implemented
C12_Witness ==
    /\ last.op = "critique" /\ last.status = 200
    /\ session_state.phase = "implemented"

\* C13: reset, from any state, leaves phase idle, no PageModel, no
\* TestCases, no generated code, no test file path, no last verification
\* and zeroed metrics, and every file on disk stays as it was
C13_ResetClearsSessionOnly ==
    [][ last'.op = "reset" =>
            /\ last'.status = 200
            /\ session_state'.phase = "idle"
            /\ session_state'.page_structure = None
            /\ session_state'.test_cases = <<>>
            /\ session_state'.generated_code = ""
            /\ session_state'.test_file_path = None
            /\ session_state'.last_verification = None
            /\ session_state'.metrics.iteration_count = 0
            /\ files' = files ]_vars

\* a session that was explored, designed, implemented and verified has
\* been reset: the page model, test case, test and evidence files are there
C13_Witness ==
    /\ last.op = "reset"
    /\ session_state.phase = "idle" /\ session_state.generated_code = ""
    /\ files # Untracked
    /\ EvidenceFiles \in files
    /\ \E h \in Hosts :
         LET url == [scheme |-> "https", host |-> h]
         IN  {PageModelFile(url), TestCasesFile(url), TestFile(url)} \subseteq files

(***************************************************************************)
(* Properties of the self-correction loop (SpecLoop).                      *)
(***************************************************************************)
\* an implement call whose generation call returned
LoopRan == implement_run # None /\ implement_run.initial # "raise"

\* the candidate the loop starts from
FirstCandidate == implementation_parse_response(implement_run.initial)

\* the correction LLM calls of the call: all its LLM calls but the first
CorrectionCalls == implement_run.result.llm - 1

\* C14: one implement() call asks the LLM for a correction at most
\* MAX_CORRECTION_ATTEMPTS times whatever the validators and the LLM
\* answer, and the call comes to an end with a result
C14_AtMostThreeCorrections ==
    LoopRan =>
        /\ CorrectionCalls <= MAX_CORRECTION_ATTEMPTS
        /\ implement_run.result.ok =>
               Len(implement_run.result.self_correction.history)
                   <= MAX_CORRECTION_ATTEMPTS

\* three corrections were asked for, none gave a valid candidate, and the
\* LLM had a further invalid reply ready
C14_Witness ==
    /\ LoopRan
    /\ CorrectionCalls = MAX_CORRECTION_ATTEMPTS
    /\ \A i \in 1..ScriptLen : implement_run.corr[i] \in LoopInvalidReplies
    /\ CriticalIssues(implement_run.result.code) # <<>>

\* C15: when a correction round returns the code it was asked to correct,
\* the loop stops there: the call makes no further correction call and no
\* further round, although attempts remain
C15_SameCodeStopsLoop ==
    LoopRan =>
        LET c0 == FirstCandidate
            c1 == implementation_parse_response(implement_run.corr[1])
            c2 == implementation_parse_response(implement_run.corr[2])
            res == implement_run.result
        IN  /\ (CriticalIssues(c0) # <<>> /\ implement_run.corr[1] # "raise" /\ c1 = c0)
                  => /\ CorrectionCalls = 1
                     /\ Len(res.self_correction.history) = 1
                     /\ res.code = c0
            /\ (/\ CriticalIssues(c0) # <<>> /\ implement_run.corr[1] # "raise" /\ c1 # c0
                /\ CriticalIssues(c1) # <<>> /\ implement_run.corr[2] # "raise" /\ c2 = c1)
                  => /\ CorrectionCalls = 2
                     /\ Len(res.self_correction.history) = 2
                     /\ res.code = c1

\* the second round returned the code of the first round, and the LLM
\* had a different reply ready for a third round
C15_Witness ==
    /\ LoopRan
    /\ implement_run.initial = "syntax"
    /\ implement_run.corr[1] = "nopw" /\ implement_run.corr[2] = "nopw"
    /\ implement_run.corr[3] = "notest"
    /\ CorrectionCalls = 2

\* C16: a candidate that parses, mentions Playwright and has a test
\* function, whatever advisory issues it has, triggers no correction call
\* and gives an empty correction history; a candidate with a syntax
\* error, no Playwright reference or no test function triggers a round
C16_OnlyCriticalIssuesCorrected ==
    LoopRan =>
        LET c0 == FirstCandidate
            res == implement_run.result
        IN  IF ParsesAsPython(c0) /\ MentionsPlaywright(c0) /\ HasTestFunction(c0)
            THEN CorrectionCalls = 0 /\ res.self_correction.history = <<>>
            ELSE CorrectionCalls >= 1 /\ Len(res.self_correction.history) >= 1

\* a candidate without navigation call went through without correction
C16_Witness ==
    /\ LoopRan
    /\ implement_run.initial = "nogoto"
    /\ validate_structure(FirstCandidate).issues # <<>>
    /\ CorrectionCalls = 0
    /\ session_state.generated_code = "nogoto"

\* C17: when the candidate is still invalid after the correction attempts
\* are used up, implement() succeeds: the candidate is returned with
\* final_syntax_valid or final_structure_valid false and saved, and the
\* session is in phase implemented with that code and its file
C17_InvalidCandidateIsReturned ==
    (LoopRan /\ CorrectionCalls = MAX_CORRECTION_ATTEMPTS
        /\ implement_run.result.llm_raised = "no"
        /\ CriticalIssues(SelfCorrectionLoop(
               [code |-> FirstCandidate, history |-> <<>>, llm |-> 1,
                llm_raised |-> "no", exception |-> FALSE],
               0, implement_run.corr).code) # <<>>)
    => LET res == implement_run.result
       IN  /\ res.ok
           /\ last.op = "implement" /\ last.status = 200
           /\ CriticalIssues(res.code) # <<>>
           /\ ~res.self_correction.final_syntax_valid
                 \/ ~res.self_correction.final_structure_valid
           /\ session_state.phase = "implemented"
           /\ session_state.generated_code = res.code
           /\ session_state.test_file_path = res.file_path

\* three corrections were used up and the code with a syntax error of the
\* last one is the session's generated code
C17_Witness ==
    /\ LoopRan /\ CorrectionCalls = MAX_CORRECTION_ATTEMPTS
    /\ implement_run.corr[3] = "syntax"
    /\ session_state.generated_code = "syntax"
    /\ session_state.phase = "implemented"
    /\ ~implement_run.result.self_correction.final_syntax_valid

(***************************************************************************)
(* Properties of one streaming run (SpecStream).                           *)
(***************************************************************************)
\* the positions of the events of one kind in the stream
EventsOf(kind) ==
    {i \in 1..Len(stream.events) : stream.events[i].event = kind}

\* the test_result events carrying one test name
ResultsFor(name) ==
    {i \in EventsOf("test_result") : stream.events[i].name = name}

\* C18: in one streaming run, every distinct test name appearing in the
\* matching output lines read so far has exactly one test_result event,
\* however many lines mention it (and a name no line mentions has none)
C18_OneResultPerTestName ==
    \A name \in TestNames :
        Cardinality(ResultsFor(name)) =
            IF Len(StatusesOf(stream.stdout_lines, name)) > 0 THEN 1 ELSE 0

\* a name printed on two lines, with its one event
C18_Witness ==
    /\ Len(StatusesOf(stream.stdout_lines, "test_a")) = 2
    /\ Cardinality(ResultsFor("test_a")) = 1
    /\ Len(StatusesOf(stream.stdout_lines, "test_PASSED")) = 1
    /\ Cardinality(ResultsFor("test_PASSED")) = 1

\* the terminal events of the stream
TerminalEvents == EventsOf("complete") \cup EventsOf("error")

\* what holds of every stream, finished or not: the events between the
\* first and a terminal one are test_result events that follow a start, a
\* terminal event is the only one and the last, complete is yielded after
\* the process has exited, and the stream is finished exactly when it
\* holds its terminal event
StreamTail ==
    /\ \A i \in EventsOf("test_result") :
           i > 1 /\ stream.events[1].event = "start"
    /\ Cardinality(TerminalEvents) <= 1
    /\ \A i \in TerminalEvents : i = Len(stream.events)
    /\ \A i \in EventsOf("complete") : stream.events[i].exited
    /\ stream.pc = "done" <=> TerminalEvents # {}
    /\ \A i \in 1..Len(stream.events) :
           stream.events[i].event \in {"start", "test_result", "complete", "error"}

\* C19 as stated: every finished verify-stream event sequence begins with
\* exactly one start event yielded before the subprocess is spawned,
\* continues with test_result events only and ends with exactly one
\* terminal event, complete (after the process has exited) or error,
\* never both, with no event after it
C19_BeginsWithStart ==
    /\ StreamTail
    /\ stream.pc = "done" =>
           /\ Cardinality(EventsOf("start")) = 1
           /\ stream.events[1].event = "start"
           /\ ~stream.events[1].spawned

\* C19, amended: a stream holds at most one start event, which is then
\* the first event and is yielded before the subprocess is spawned;
\* test_result events occur only after it; the stream ends with exactly
\* one terminal event, complete (after the process has exited) or error,
\* never both, with no event after it; a stream without a start event
\* consists of the error event alone
C19_StartUnlessSetupFails ==
    /\ StreamTail
    /\ Cardinality(EventsOf("start")) <= 1
    /\ \A i \in EventsOf("start") : i = 1 /\ ~stream.events[i].spawned
    /\ (stream.pc = "done" /\ EventsOf("start") = {}) =>
           /\ Len(stream.events) = 1
           /\ stream.events[1].event = "error"

\* a finished run: start, two test results, complete after the exit
C19_Witness ==
    /\ stream.pc = "done"
    /\ Len(stream.events) = 4
    /\ stream.events[1].event = "start"
    /\ stream.events[2].event = "test_result"
    /\ stream.events[3].event = "test_result"
    /\ stream.events[4].event = "complete"
    /\ stream.exited

\* the test_result events that carry passed = true
PassedResults == {i \in EventsOf("test_result") : stream.events[i].passed}

\* C20: the counts of the complete event agree with the events streamed in
\* the same run: passed is the number of test_result events with
\* passed = true, total the number of test_result events, and
\* failed = total - passed
C20_CountsAgreeWithEvents ==
    \A i \in EventsOf("complete") :
        /\ stream.events[i].counts.passed = Cardinality(PassedResults)
        /\ stream.events[i].counts.total = Cardinality(EventsOf("test_result"))
        /\ stream.events[i].counts.failed =
               stream.events[i].counts.total - stream.events[i].counts.passed

(***************************************************************************)
(* Properties of verify and critique in full (SpecBatch).                  *)
(***************************************************************************)
\* the last request was a critique that was answered with 200
CritiqueDone == batch.op = "critique" /\ batch.result.ok

\* C21: improvement.new_passed of a critique is the number of tests that
\* passed in the execution of the refactored file made inside that call
C21_NewPassedIsFreshCount ==
    CritiqueDone =>
        batch.result.improvement.new_passed = Len(TestsEnding(batch.ex.run, "passed"))

\* the passed count of the report a session holds: the count of the
\* complete event, or the passed records of the batch run
ReportPassed(last_verification) ==
    IF "passed" \in DOMAIN last_verification.execution_result
    THEN last_verification.execution_result.passed
    ELSE PassedIn(last_verification.execution_result.test_results)

\* C22: improvement.original_passed of a critique equals the number of
\* passed tests in the most recent execution report of the session,
\* whichever of verify, verify-stream and critique stored it
C22_OriginalPassedFromLastReport ==
    [][ (last'.op = "critique" /\ last'.status = 200) =>
            batch'.result.improvement.original_passed =
                ReportPassed(session_state.last_verification) ]_vars

\* the failed records of the batch run a session holds
FailedIn(last_verification) ==
    SelectSeq(ExecutedResults(last_verification), LAMBDA t : ~t.passed)

\* C23: when the most recent execution report holds failed tests, the
\* prompt critique sends to the LLM lists each of them
C23_PromptListsFailedTests ==
    [][ (last'.op = "critique" /\ last'.status # 400) =>
            \A i \in 1..Len(FailedIn(session_state.last_verification)) :
                \E k \in 1..Len(batch'.result.prompt.failure_details) :
                    batch'.result.prompt.failure_details[k].name =
                        FailedIn(session_state.last_verification)[i].name ]_vars

\* what a critique answered with 200 leaves in the session: the refactored
\* code, the path of its new file, and the result of the one run of it
CritiqueReplaced ==
    /\ session_state'.generated_code = batch'.result.refactored_code
    /\ batch'.result.new_file_path =
           save_refactored_code(session_state.last_verification.test_file)
    /\ session_state'.test_file_path = batch'.result.new_file_path
    /\ session_state'.last_verification =
           [execution_result |-> run_pytest_with_video_result(batch'.ex),
            test_file        |-> batch'.result.new_file_path]

C27_TimeoutIsAnError ==
    (batch.op = "verify" /\ batch.ex.kind = "timeout") =>
        /\ batch.result.report.status = "error"
        /\ batch.result.report.summary.total =
               Len(batch.result.execution_result.test_results)
        /\ batch.result.report.summary.passed =
               PassedIn(batch.result.execution_result.test_results)

\* C28: for every batch verify, the number of per-test records of the
\* report equals the total stated in its summary, and that total is the
\* stated passed count plus the stated failed count
C28_RecordsMatchSummary ==
    batch.op = "verify" =>
        /\ Len(batch.result.report.tests) = batch.result.report.summary.total
        /\ batch.result.report.summary.total =
               batch.result.report.summary.passed + batch.result.report.summary.failed

(***************************************************************************)
(* Properties of the test files (SpecDisk).                                *)
(***************************************************************************)
\* C25: critique writes the refactored code to a path different from the
\* path of the artifact it refactors (the file of the last verification
\* and the current file of the session), and no file written by implement
\* is changed by a critique
C25_CritiqueKeepsOriginal ==
    [][ (last'.op = "critique" /\ last'.status = 200
         /\ session_state' # session_state) =>
            /\ session_state'.test_file_path # session_state.last_verification.test_file
            /\ session_state'.test_file_path # session_state.test_file_path
            /\ session_state'.test_file_path \in DOMAIN disk'.tests_dir
            /\ \A p \in DOMAIN disk.tests_dir :
                   (p \in disk.implemented \/ p = session_state.test_file_path) =>
                       disk'.tests_dir[p] = disk.tests_dir[p] ]_vars

\* after two critiques the file implement wrote still holds what implement
\* wrote, beside the two refactored versions
C25_Witness ==
    /\ last.op = "critique" /\ last.status = 200
    /\ Len(session_state.test_file_path.refactored) = 2
    /\ \E p \in disk.implemented :
           /\ disk.tests_dir[p].header.kind = "generated"
           /\ save_refactored_code_at(p, session_state.test_file_path.refactored[1])
                  \in DOMAIN disk.tests_dir
           /\ Cardinality(DOMAIN disk.tests_dir) = 3

\* C26: each implement writes its artifact to a path that no earlier
\* implement wrote, and every file that was there keeps its content
C26_ImplementWritesNewFile ==
    [][ (last'.op = "implement" /\ last'.status = 200
         /\ session_state' # session_state) =>
            /\ session_state'.test_file_path \notin disk.implemented
            /\ \A p \in DOMAIN disk.tests_dir :
                   disk'.tests_dir[p] = disk.tests_dir[p] ]_vars

(***************************************************************************)
(* Properties of the response parsers (SpecParse).                         *)
(***************************************************************************)
\* the text is one JSON value, bare or inside a ```json or ``` fence
IsJsonText(text) ==
    /\ text.before = ""
    /\ text.fence \in {"none", "json", "bare"}
    /\ text.body \in JsonValues

\* the documented default of the operation
DefaultOf(op) ==
    IF op \in {"explore.parse_response", "explore"}
    THEN get_default_structure(ParseUrl)
    ELSE default_test_cases

\* C29: for every LLM response text (clean JSON, fenced JSON, non-JSON,
\* empty) the explore and design parsers return without raising, and what
\* they return is the value parsed from the text or the documented default
\* (the empty page model for explore, the one default test case for design);
\* a text that is no JSON always gets the default.
C29_ParsersReturnValueOrDefault ==
    (llm_text # None /\ llm_text.op \in {"explore.parse_response", "design.parse_response"})
        => /\ llm_text.result.exc = "none"
           /\ IF IsJsonText(llm_text.text)
              THEN llm_text.result.value \in {llm_text.text.body, DefaultOf(llm_text.op)}
              ELSE llm_text.result.value = DefaultOf(llm_text.op)

\* a fenced array of test cases parsed by design
C29_Witness ==
    /\ llm_text # None
    /\ llm_text.op = "design.parse_response"
    /\ llm_text.text.fence = "json"
    /\ llm_text.text.before = ""
    /\ llm_text.text.body.type = "array"
    /\ llm_text.result = Returned(llm_text.text.body)
    /\ Len(llm_text.text.body.items) > 0

\* an array parsed by explore into the default
C29_WitnessDefault ==
    /\ llm_text # None
    /\ llm_text.op = "explore.parse_response"
    /\ IsJsonText(llm_text.text)
    /\ llm_text.text.body.type = "array"
    /\ llm_text.result = Returned(get_default_structure(ParseUrl))

\* valid JSON of another structure than the operation expects
WrongStructure(op, text) ==
    /\ IsJsonText(text)
    /\ \/ op = "explore" /\ text.body.type # "object"
       \/ op = "design"  /\ text.body.type # "array"

\* C30: an LLM response that is valid JSON but not of the expected structure
\* (an array or scalar for explore, an object or scalar for design) never
\* surfaces as an error from explore() or design(); the operation completes
\* with the documented fallback.
C30_WrongStructureFallsBack ==
    (llm_text # None /\ WrongStructure(llm_text.op, llm_text.text))
        => llm_text.result = Returned(DefaultOf(llm_text.op))

\* prose around one balanced JSON object or array
HasEmbeddedSpan(text) ==
    /\ text.before = "prose"
    /\ text.fence = "none"
    /\ text.body \in JsonObjects \cup JsonArrays

\* C31: when the direct JSON parse of an explore or design response fails
\* but the text holds a balanced JSON object or array surrounded by prose,
\* the parser returns the value parsed from that span, not the default.
C31_EmbeddedSpanIsParsed ==
    (/\ llm_text # None
     /\ llm_text.op \in {"explore.parse_response", "design.parse_response"}
     /\ HasEmbeddedSpan(llm_text.text)
     /\ llm_text.op = "explore.parse_response" => llm_text.text.body.type = "object"
     /\ llm_text.op = "design.parse_response" => llm_text.text.body.type = "array")
        => llm_text.result = Returned(llm_text.text.body)

(***************************************************************************)
(* Properties of the source-code extractor (SpecExtract).                  *)
(***************************************************************************)
\* C32: source-code extraction is idempotent: for every response text and
\* fixed page structure and test cases, parse_response applied to its own
\* output returns that output unchanged.
C32_ExtractionIsIdempotent ==
    (llm_text # None /\ llm_text.twice # None) => llm_text.twice = llm_text.once

(***************************************************************************)
(* Properties of refine_test_cases (SpecRefine).                           *)
(***************************************************************************)
\* C33: starting from a collection of test cases with pairwise distinct
\* ids, every refine operation (add, modify or remove, with any ids the LLM
\* proposes) yields a collection whose ids are still pairwise distinct.
C33_RefineKeepsIdsDistinct ==
    (llm_text # None /\ llm_text.result # None /\ llm_text.result.ok)
        => IdsDistinct(llm_text.result.test_cases)

(***************************************************************************)
(* Properties of verify-stream and the session (SpecStream).               *)
(***************************************************************************)
\* the complete event has been emitted
CompleteEmitted(st) == \E i \in 1..Len(st.events) : st.events[i].event = "complete"

\* the stream ended with an error event, or the client left before complete
EndedWithoutComplete(st) ==
    \/ st.pc = "closed"
    \/ st.pc = "done" /\ st.events # <<>>
          /\ st.events[Len(st.events)].event = "error"

\* C37: verify-stream changes the session (phase, test file path, last
\* verification) only after its complete event has been emitted; a stream
\* that ends with an error event, or is abandoned before complete, leaves
\* the session exactly as it was.
C37_SessionWrittenAfterComplete ==
    /\ [][session_state' # session_state => CompleteEmitted(stream)]_vars
    /\ [](EndedWithoutComplete(stream) => session_state = ImplementedState)

\* the generator went on behind the complete event and wrote the session
C37_Witness ==
    /\ stream.resumed
    /\ CompleteEmitted(stream)
    /\ session_state.phase = "verified"
    /\ session_state # ImplementedState

\* a stream closed by the client after some events
C37_WitnessAbandoned ==
    /\ stream.pc = "closed"
    /\ stream.events # <<>>
    /\ session_state = ImplementedState

(***************************************************************************)
(* Properties of requests handled at the same time (SpecRace).             *)
(***************************************************************************)
\* request r is an implement call whose service has returned
ImplementReturned(r) ==
    /\ in_flight.reqs[r].op = "implement"
    /\ in_flight.reqs[r].result # None

\* C34: two implement requests running at the same time on one session can
\* interleave so that the session ends with the generated code of one call
\* and the test file path of the other: code and path are stored by two
\* separate assignments (the step of a call that stores its path leaves the
\* code as it is), and no lock keeps another call from running in between.
C34_CodeAndPathStoredApart ==
    [][\A r \in Requests :
          (/\ ImplementReturned(r)
           /\ in_flight'.reqs[r].todo # in_flight.reqs[r].todo
           /\ session_state'.test_file_path # session_state.test_file_path)
              => session_state'.generated_code = session_state.generated_code]_vars

\* both calls have answered; the session holds the code of one and the
\* path of the other
C34_Witness ==
    /\ in_flight # None
    /\ \A r \in Requests : ImplementReturned(r) /\ in_flight.reqs[r].pc = "done"
    /\ \E r, q \in Requests :
          /\ r # q
          /\ in_flight.reqs[r].result.code # in_flight.reqs[q].result.code
          /\ in_flight.reqs[r].result.file_path # in_flight.reqs[q].result.file_path
          /\ session_state.generated_code = in_flight.reqs[r].result.code
          /\ session_state.test_file_path = in_flight.reqs[q].result.file_path

\* C38: once a reset request has completed, the session stays at phase idle
\* with no artifacts until a request started after that reset succeeds, even
\* when requests started before the reset are still running and finish later.
C38_ResetHoldsUntilNewRequest ==
    (in_flight # None /\ in_flight.reset_done /\ ~in_flight.fresh)
        => session_state = create_initial_state

(***************************************************************************)
(* Properties of the result of implement() (SpecLoop).                     *)
(***************************************************************************)
\* the candidate parsed from the j-th correction reply, the initial
\* candidate for j = 0
CandidateAt(j) ==
    IF j = 0 THEN FirstCandidate
    ELSE implementation_parse_response(implement_run.corr[j])

\* the j-th correction reply was taken over: it did not raise and its code
\* is not empty and differs from the candidate before it
TakenOver(j) ==
    /\ implement_run.corr[j] # "raise"
    /\ CandidateAt(j) # ""
    /\ CandidateAt(j) # CandidateAt(j - 1)

\* C35: the code returned by implement() is the last candidate accepted
\* from the LLM (the initial candidate if no correction produced different
\* code); an earlier candidate is never restored, even if it had fewer
\* issues, and final_syntax_valid / final_structure_valid are computed on
\* exactly the returned code.
C35_LastCandidateIsReturned ==
    (LoopRan /\ implement_run.result.ok) =>
        LET res == implement_run.result
            k   == Len(res.self_correction.history)
        IN  /\ res.code = IF k = 0 THEN CandidateAt(0)
                          ELSE IF TakenOver(k) THEN CandidateAt(k)
                          ELSE CandidateAt(k - 1)
            /\ res.self_correction.final_syntax_valid = validate_syntax(res.code).ok
            /\ res.self_correction.final_structure_valid = validate_structure(res.code).ok

\* the returned code is a correction with more critical issues than the
\* initial candidate had
C35_Witness ==
    /\ LoopRan /\ implement_run.result.ok
    /\ implement_run.result.code # FirstCandidate
    /\ Len(CriticalIssues(implement_run.result.code)) > Len(CriticalIssues(FirstCandidate))
    /\ session_state.generated_code = implement_run.result.code

\* C36: in every implement() result, self_correction.attempts equals the
\* length of self_correction.history, the entries carry the attempt numbers
\* 1..k in increasing order with k <= 3, each entry lists at least one
\* critical issue, and k is the number of correction LLM calls started in
\* that call (a call that raised included).
C36_HistoryMatchesCorrections ==
    (LoopRan /\ implement_run.result.ok) =>
        LET sc == implement_run.result.self_correction
            k  == Len(sc.history)
        IN  /\ sc.attempts = k
            /\ k <= MAX_CORRECTION_ATTEMPTS
            /\ \A i \in 1..k : /\ sc.history[i].attempt = i
                               /\ sc.history[i].issues # <<>>
            /\ k = CorrectionCalls

\* two rounds were entered and the LLM call of the second one raised
C36_Witness ==
    /\ LoopRan /\ implement_run.result.ok
    /\ Len(implement_run.result.self_correction.history) = 2
    /\ implement_run.corr[2] = "raise"
    /\ implement_run.result.llm_raised = "correction"
    /\ CorrectionCalls = 2

(***************************************************************************)
(* Properties of implement followed by verify (SpecDisk).                  *)
(***************************************************************************)
\* C39: every successful implement() stores non-empty generated code
\* together with the path of the file holding it, so a verify() issued
\* directly afterwards passes its precondition check and executes exactly
\* that file.
C39_ImplementPreparesVerify ==
    (last.op = "implement" /\ last.status = 200) =>
        LET path == session_state.test_file_path
            verified == verify_tests(session_state, CHOOSE o \in RunOutcomes : o.success)
        IN  /\ session_state.generated_code # ""
            /\ path \in DOMAIN disk.tests_dir
            /\ disk.tests_dir[path].code = session_state.generated_code
            /\ ~VerifyRejected(session_state)
            /\ verified.resp.status = 200
            /\ verified.resp.runner = 1
            /\ verified.state.last_verification.test_file = path
            /\ verified.state.test_file_path = path

\* the LLM answered with a heading and no code: the template was stored
\* and saved
C39_Witness ==
    /\ last.op = "implement" /\ last.status = 200
    /\ session_state.generated_code = get_default_code
    /\ session_state.test_file_path \in DOMAIN disk.tests_dir
    /\ disk.tests_dir[session_state.test_file_path].code = get_default_code

\* C40: when the refine reply parses as JSON neither directly nor from an
\* embedded object span, refine answers without error, returns the current
\* test cases with the "couldn't process" message, and the session's test
\* cases, page model and generated code are what they were before
C40_UnparseableRefineKeepsWorkflow ==
    (llm_text # None /\ llm_text.result # None /\ llm_text.reply.kind = "nonjson")
        => /\ llm_text.result.ok
           /\ llm_text.result.test_cases = llm_text.current
           /\ llm_text.result.message = "couldn't process"
           /\ last.op = "refine" /\ last.status = 200
           /\ session_state.test_cases = llm_text.current
           /\ session_state.page_structure = RefineSession(llm_text.current).page_structure
           /\ session_state.generated_code = RefineSession(llm_text.current).generated_code
           /\ session_state.generated_code # ""

\* an unparseable reply was answered for a session that holds two test cases
C40_Witness ==
    /\ llm_text # None
    /\ llm_text.result # None
    /\ llm_text.reply.kind = "nonjson"
    /\ Len(llm_text.current) = 2
    /\ last.op = "refine"
    /\ last.status = 200
    /\ session_state.test_cases = llm_text.current

====
